---- MODULE Spec2Model ----
(***************************************************************************)
(* Link/instrument engine of wasm-toolkit (package wasmfile): merging a    *)
(* donor module into a host (AddFuncsFrom, AddDataFrom), late-binding      *)
(* resolution, code edits and the per-instruction binary encoder.          *)
(* Instructions are pointers to Expression records: a code body is a list  *)
(* of pointers, modelled as addresses into `heap`, so that a record        *)
(* reachable from two positions is one record.                             *)
(***************************************************************************)
EXTENDS Integers, Sequences, FiniteSets, TLC

(***************************************************************************)
(* Bounds of the model                                                     *)
(***************************************************************************)
I32Bits == 18
MaxEdits == 1

(***************************************************************************)
(* Generic helpers                                                         *)
(***************************************************************************)
EmptyMap == [x \in {} |-> 0]

Put(m, k, v) == [x \in (DOMAIN m) \cup {k} |-> IF x = k THEN v ELSE m[x]]

Range(s) == {s[i] : i \in DOMAIN s}

Min(S) == CHOOSE x \in S : \A y \in S : x <= y

RECURSIVE Pow2(_)
Pow2(n) == IF n = 0 THEN 1 ELSE 2 * Pow2(n - 1)

\* int32 arithmetic, two's complement, at the width of the model
WrapI32(x) == ((x + Pow2(I32Bits - 1)) % Pow2(I32Bits)) - Pow2(I32Bits - 1)

MaxI32 == Pow2(I32Bits - 1) - 1

(***************************************************************************)
(* Instruction model: the fields of Expression the engine reads or writes  *)
(***************************************************************************)
Expression(op) ==
    [Opcode |-> op, FuncIndex |-> 0, GlobalIndex |-> 0, TypeIndex |-> 0,
     TableIndex |-> 0, LocalIndex |-> 0, I32Value |-> 0, PC |-> 0,
     Labels |-> <<>>, LabelIndex |-> 0, OpcodeExt |-> 0,
     FunctionNeedsLinking |-> FALSE, FunctionId |-> "",
     GlobalNeedsLinking |-> FALSE, GlobalId |-> "",
     DataOffsetNeedsLinking |-> FALSE, DataLengthNeedsLinking |-> FALSE,
     I32DataId |-> ""]

Call(f) == [Expression("call") EXCEPT !.FuncIndex = f]
CallSym(id) == [Expression("call") EXCEPT !.FunctionNeedsLinking = TRUE, !.FunctionId = id]
CallIndirect(t) == [Expression("call_indirect") EXCEPT !.TypeIndex = t]
GlobalGet(g) == [Expression("global.get") EXCEPT !.GlobalIndex = g]
GlobalSet(g) == [Expression("global.set") EXCEPT !.GlobalIndex = g]
GlobalGetSym(id) == [Expression("global.get") EXCEPT !.GlobalNeedsLinking = TRUE, !.GlobalId = id]
I32Const(v) == [Expression("i32.const") EXCEPT !.I32Value = v]
I32Offset(id) == [Expression("i32.const") EXCEPT !.DataOffsetNeedsLinking = TRUE, !.I32DataId = id]
I32Length(id) == [Expression("i32.const") EXCEPT !.DataLengthNeedsLinking = TRUE, !.I32DataId = id]

ExportFunc == 0
ExportGlobal == 3

(***************************************************************************)
(* Type entries                                                            *)
(***************************************************************************)
TypeV == [Param |-> <<>>, Result |-> <<>>]
TypeI == [Param |-> <<"i32">>, Result |-> <<>>]
TypeII == [Param |-> <<"i32">>, Result |-> <<"i32">>]
TypeL == [Param |-> <<"i64">>, Result |-> <<>>]

\* TypeEntry.Equals: lengths first, then element by element
Equals(te, te2) ==
    IF Len(te.Param) # Len(te2.Param) \/ Len(te.Result) # Len(te2.Result)
    THEN FALSE
    ELSE /\ \A idx \in 1..Len(te.Param) : te.Param[idx] = te2.Param[idx]
         /\ \A idx \in 1..Len(te.Result) : te.Result[idx] = te2.Result[idx]

(***************************************************************************)
(* Identifier resolution (name maps are index -> identifier)               *)
(***************************************************************************)
MaxIndex == 12

NumericIds == {ToString(n) : n \in 0..MaxIndex}

\* strings.HasPrefix(id, "$"): every identifier of the model that is not a
\* decimal number is a symbolic $name
HasDollarPrefix(id) == id # "" /\ id \notin NumericIds

\* strconv.Atoi on a decimal identifier
Atoi(id) == CHOOSE n \in 0..MaxIndex : ToString(n) = id

GetFunctionIdentifier(names, fid, defaultEmpty) ==
    IF fid \in DOMAIN names THEN names[fid]
    ELSE IF defaultEmpty THEN "" ELSE ToString(fid)

GetGlobalIdentifier(names, gid, defaultEmpty) ==
    IF gid \in DOMAIN names THEN names[gid]
    ELSE IF defaultEmpty THEN "" ELSE ToString(gid)

GetDataIdentifier(names, did) ==
    IF did \in DOMAIN names THEN names[did] ELSE ToString(did)

\* linear lookup of an identifier in a name map, -1 when absent
LookupID(names, id) ==
    LET hits == {i \in DOMAIN names : names[i] = id}
    IN  IF hits # {} THEN Min(hits) ELSE -1

LookupFunctionID(w, id) == LookupID(w.FunctionNames, id)
LookupGlobalID(w, id) == LookupID(w.globalNames, id)

LookupDataId(w, id) == LookupID(w.dataNames, id)

(***************************************************************************)
(* Module operations                                                       *)
(***************************************************************************)
\* AddTypeMaybe: index of the first structurally equal entry, else append
\* faulty variant: the entry is appended without looking for an equal one
AddTypeMaybe_append(Type, te) == [Type |-> Append(Type, te), idx |-> Len(Type)]

\* faulty variant: an equal entry is looked for among the first two only
AddTypeMaybe_short(Type, te) ==
    LET hits == {idx \in 1..Min({2, Len(Type)}) : Equals(Type[idx], te)}
    IN  IF hits # {} THEN [Type |-> Type, idx |-> Min(hits) - 1]
        ELSE [Type |-> Append(Type, te), idx |-> Len(Type)]

AddTypeMaybe(Type, te) ==
    LET hits == {idx \in 1..Len(Type) : Equals(Type[idx], te)}
    IN  IF hits # {} THEN [Type |-> Type, idx |-> Min(hits) - 1]
        ELSE [Type |-> Append(Type, te), idx |-> Len(Type)]

\* faulty variant: the interval is half open
RECURSIVE FindFunction_open(_, _, _)
FindFunction_open(w, pcv, index) ==
    IF index >= Len(w.Code) THEN -1
    ELSE LET c == w.Code[index + 1]
         IN  IF c.PCValid /\ pcv >= c.CodeSectionPtr
                /\ pcv < c.CodeSectionPtr + c.CodeSectionLen
             THEN Len(w.Import) + index
             ELSE FindFunction_open(w, pcv, index + 1)

\* FindFunction: the loop over wf.Code from position index on
RECURSIVE FindFunction(_, _, _)
FindFunction(w, pcv, index) ==
    IF index >= Len(w.Code) THEN -1
    ELSE LET c == w.Code[index + 1]
         IN  IF c.PCValid /\ pcv >= c.CodeSectionPtr
                /\ pcv <= c.CodeSectionPtr + c.CodeSectionLen
             THEN Len(w.Import) + index
             ELSE FindFunction(w, pcv, index + 1)

\* one of the three maps of Renumber_functions: entry o moves to remap[o],
\* an entry whose index is no key of remap is not carried over
RenumberMap_copy(m, remap) ==
    LET keys == (DOMAIN remap) \cap (DOMAIN m)
        new == {remap[o] : o \in keys}
    IN  [n \in new \cup DOMAIN m |->
            IF n \in new THEN m[CHOOSE o \in keys : remap[o] = n] ELSE m[n]]

RenumberMap(m, remap) ==
    LET keys == (DOMAIN remap) \cap (DOMAIN m)
    IN  [n \in {remap[o] : o \in keys} |-> m[CHOOSE o \in keys : remap[o] = n]]

\* faulty variant: functionDebug and functionSignature are left as they are
Renumber_functions_names(w, remap) ==
    [w EXCEPT !.FunctionNames = RenumberMap(w.FunctionNames, remap)]

Renumber_functions(w, remap) ==
    [w EXCEPT !.FunctionNames = RenumberMap(w.FunctionNames, remap),
              !.functionDebug = RenumberMap(w.functionDebug, remap),
              !.functionSignature = RenumberMap(w.functionSignature, remap)]

\* ModifyAllCalls: walks the body and rewrites the record behind each
\* pointer; a record met twice is rewritten twice
RECURSIVE ModifyAllCalls(_, _, _)
ModifyAllCalls(h, body, m) ==
    IF body = <<>> THEN h
    ELSE LET a == Head(body)
             h2 == IF h[a].FuncIndex \in DOMAIN m
                   THEN [h EXCEPT ![a].FuncIndex = m[h[a].FuncIndex]]
                   ELSE h
         IN  ModifyAllCalls(h2, Tail(body), m)

\* faulty variant: the donor body keeps its own global indexes
ModifyAllGlobals_skip(h, body, m) == h

RECURSIVE ModifyAllGlobals(_, _, _)
ModifyAllGlobals(h, body, m) ==
    IF body = <<>> THEN h
    ELSE LET a == Head(body)
             h2 == IF h[a].GlobalIndex \in DOMAIN m
                   THEN [h EXCEPT ![a].GlobalIndex = m[h[a].GlobalIndex]]
                   ELSE h
         IN  ModifyAllGlobals(h2, Tail(body), m)

\* faulty variant: the numeric special case is left out
RECURSIVE ModifyUnresolvedFunctions_rename(_, _, _)
ModifyUnresolvedFunctions_rename(h, body, m) ==
    IF body = <<>> THEN h
    ELSE LET a == Head(body)
             e == h[a]
             h2 == IF e.FunctionNeedsLinking /\ e.FunctionId \in DOMAIN m
                   THEN [h EXCEPT ![a].FunctionId = m[e.FunctionId]]
                   ELSE h
         IN  ModifyUnresolvedFunctions_rename(h2, Tail(body), m)

RECURSIVE ModifyUnresolvedFunctions(_, _, _)
ModifyUnresolvedFunctions(h, body, m) ==
    IF body = <<>> THEN h
    ELSE LET a == Head(body)
             e == h[a]
             newid == m[e.FunctionId]
             h2 == IF e.FunctionNeedsLinking /\ e.FunctionId \in DOMAIN m
                   THEN IF ~HasDollarPrefix(newid)
                        THEN [h EXCEPT ![a].FunctionId = newid,
                                       ![a].FunctionNeedsLinking = FALSE,
                                       ![a].FuncIndex = Atoi(newid)]
                        ELSE [h EXCEPT ![a].FunctionId = newid]
                   ELSE h
         IN  ModifyUnresolvedFunctions(h2, Tail(body), m)

\* all code bodies of the module, in code order
RECURSIVE ModifyAllCallsInCode(_, _, _)
ModifyAllCallsInCode(h, code, m) ==
    IF code = <<>> THEN h
    ELSE ModifyAllCallsInCode(ModifyAllCalls(h, Head(code).Expression, m), Tail(code), m)

(***************************************************************************)
(* Input modules.  A donor is what the text decoder hands over: every      *)
(* instruction is its own record.  A host is what the binary decoder       *)
(* hands over: no dangling index, one code body per function entry.        *)
(***************************************************************************)
Import(mod, name, t) == [Module |-> mod, Name |-> name, Index |-> t]
GlobalEntry(tag) == [Type |-> "i32", Mut |-> 1, Tag |-> tag]
DataEntry(off, bytes) == [MemIndex |-> 0, Offset |-> <<I32Const(off)>>, Data |-> bytes]
CodeEntry(ex) ==
    [Expression |-> ex, PCValid |-> FALSE, CodeSectionPtr |-> 0, CodeSectionLen |-> 0]

DonorC ==
    [Type |-> <<TypeI>>,
     Import |-> <<Import("c", "c", 0)>>,
     Function |-> <<[TypeIndex |-> 0], [TypeIndex |-> 0]>>,
     Code |-> <<CodeEntry(<<Call(0), Call(1), GlobalGet(0)>>),
                CodeEntry(<<I32Offset("$D0")>>)>>,
     Global |-> <<GlobalEntry("c0")>>,
     Data |-> <<DataEntry(0, <<104, 101, 108, 108, 111>>)>>,
     FunctionNames |-> Put(Put(EmptyMap, 0, "$c"), 1, "$cfn"),
     globalNames |-> Put(EmptyMap, 0, "$base"),
     dataNames |-> Put(EmptyMap, 0, "$D0")]

DonorAD ==
    [Type |-> <<TypeV, TypeII, TypeI, TypeL>>,
     Import |-> <<Import("a", "a", 0), Import("d", "d", 1)>>,
     Function |-> <<[TypeIndex |-> 1], [TypeIndex |-> 0]>>,
     Code |-> <<CodeEntry(<<Call(0), Call(3), I32Offset("$E0"), CallIndirect(3),
                            I32Offset("$E1")>>),
                CodeEntry(<<CallSym("$main"), GlobalSet(1), I32Length("$E0"),
                            Call(1), GlobalGetSym("$hg"), CallSym("$imp_a")>>)>>,
     Global |-> <<GlobalEntry("d0"), GlobalEntry("d1")>>,
     Data |-> <<DataEntry(0, <<1, 2, 3, 4, 5>>), DataEntry(8, <<6, 7, 8>>)>>,
     FunctionNames |-> Put(Put(EmptyMap, 0, "$imp_a"), 2, "$dfn"),
     globalNames |-> Put(EmptyMap, 1, "$dbg"),
     dataNames |-> Put(Put(EmptyMap, 0, "$E0"), 1, "$E1")]

\* a donor whose import b the host may hold under the name $imp_b
DonorB ==
    [Type |-> <<TypeI>>,
     Import |-> <<Import("b", "b", 0)>>,
     Function |-> <<[TypeIndex |-> 0]>>,
     Code |-> <<CodeEntry(<<CallSym("$db"), Call(1), CallSym("$bfn")>>)>>,
     Global |-> <<>>,
     Data |-> <<>>,
     FunctionNames |-> Put(Put(EmptyMap, 0, "$db"), 1, "$bfn"),
     globalNames |-> EmptyMap,
     dataNames |-> EmptyMap]

Donors == [C |-> DonorC, AD |-> DonorAD, B |-> DonorB]
DonorNames == {"C", "AD"}

HostKinds == {"self", "grow", "two"}
HostImports == <<Import("a", "a", 0), Import("b", "b", 1)>>

\* code bodies of a host whose first defined function has index n
HostBodies(kind, n) ==
    CASE kind = "self" -> <<(<<Call(n)>>)>>
      [] kind = "grow" -> <<(<<Expression("memory.grow"), Call(n), Expression("memory.grow")>>)>>
      [] kind = "two" -> <<(<<Call(n + 1), GlobalGet(0)>>),
                           (<<Call(0), CallIndirect(1), Expression("memory.size")>>)>>

\* bytes between two function bodies of the code section: the size of the
\* next body and its vector of locals
BodyHeader == 2

\* lays the bodies out in a fresh heap, one record per instruction, each
\* with the program counter the binary decoder recorded for it: an
\* instruction takes one byte, CodeSectionPtr is the offset of the first
\* instruction of a body and CodeSectionLen the bytes of its instructions
RECURSIVE LayOut(_, _, _)
LayOut(h, code, bodies) ==
    IF bodies = <<>> THEN [heap |-> h, Code |-> code]
    ELSE LET b == Head(bodies)
             ptr == IF code = <<>> THEN 1
                    ELSE code[Len(code)].CodeSectionPtr + code[Len(code)].CodeSectionLen
                         + BodyHeader
             addrs == [i \in 1..Len(b) |-> Len(h) + i]
             recs == [i \in 1..Len(b) |-> [b[i] EXCEPT !.PC = ptr + i - 1]]
         IN  LayOut(h \o recs,
                    Append(code, [Expression |-> addrs, PCValid |-> TRUE,
                                  CodeSectionPtr |-> ptr, CodeSectionLen |-> Len(b)]),
                    Tail(bodies))

HostModule(kind, nImp) ==
    LET bodies == HostBodies(kind, nImp)
        names0 == Put(EmptyMap, nImp, "$main")
        sig0 == Put(EmptyMap, nImp, "main()")
    IN  [Type |-> <<TypeV, TypeI>>,
         Import |-> SubSeq(HostImports, 1, nImp),
         Function |-> [i \in 1..Len(bodies) |-> [TypeIndex |-> 0]],
         Code |-> LayOut(<<>>, <<>>, bodies).Code,
         Export |-> <<[Name |-> "main", Type |-> ExportFunc, Index |-> nImp],
                      [Name |-> "first", Type |-> ExportFunc, Index |-> 0],
                      [Name |-> "g", Type |-> ExportGlobal, Index |-> 2]>>,
         Elem |-> <<[TableIndex |-> 0, Indexes |-> <<nImp, 0, nImp + Len(bodies) - 1>>]>>,
         Global |-> <<GlobalEntry("h0"), GlobalEntry("h1"), GlobalEntry("h2")>>,
         Data |-> IF kind = "two" THEN <<DataEntry(16, <<9, 9, 9, 9>>)>> ELSE <<>>,
         FunctionNames |-> IF nImp >= 2 THEN Put(names0, 1, "$imp_b") ELSE names0,
         functionDebug |-> Put(EmptyMap, nImp, "main.go"),
         functionSignature |-> IF nImp >= 1 THEN Put(sig0, 0, "a(i32)") ELSE sig0,
         globalNames |-> Put(EmptyMap, 0, "$hg"),
         dataNames |-> IF kind = "two" THEN Put(EmptyMap, 0, "$H0") ELSE EmptyMap,
         lineNumbers |-> Put(EmptyMap, 3, "a.go:10.3"),
         localNames |-> <<>>]

HostHeap(kind, nImp) == LayOut(<<>>, <<>>, HostBodies(kind, nImp)).heap

(***************************************************************************)
(* State                                                                   *)
(***************************************************************************)
VARIABLES
    wf,       \* the host WasmFile
    heap,     \* the Expression records that wf.Code points to
    pc,       \* position inside AddFuncsFrom, "idle" between calls
    mg,       \* locals of the running AddFuncsFrom
    used,     \* donors already merged, donors whose data was added, and
              \* (history) the address AddDataFrom gave each data name
    log,      \* observable results of the last operation
    edits,    \* number of edit operations performed
    res       \* the resolution pass under way: calls that returned no error

vars == <<wf, heap, pc, mg, used, log, edits, res>>

NoPass == [n |-> 0, base |-> 0]

\* `before`, `heapBefore` and `remaps` are history: the host as it was when
\* the merge began and the arguments the remap callback was called with
NoMerge(w, h) ==
    [src |-> "none", idx |-> 0, globalModification |-> EmptyMap,
     callModification |-> EmptyMap, importFuncModifications |-> EmptyMap,
     before |-> w, heapBefore |-> h, remaps |-> <<>>]

NoLog == [op |-> "none"]

Init ==
    /\ \E kind \in HostKinds, nImp \in 0..Len(HostImports) :
         /\ wf = HostModule(kind, nImp)
         /\ heap = HostHeap(kind, nImp)
         /\ mg = NoMerge(HostModule(kind, nImp), HostHeap(kind, nImp))
    /\ pc = "idle"
    /\ used = [funcs |-> {}, data |-> {}, placed |-> EmptyMap]
    /\ log = NoLog
    /\ edits = 0
    /\ res = NoPass

(***************************************************************************)
(* AddFuncsFrom, in the order of its four loops                            *)
(***************************************************************************)
\* the globals loop: append each donor global, copy its name
RECURSIVE AddGlobalsFrom(_, _, _, _)
AddGlobalsFrom(w, src, idx, gm) ==
    IF idx >= Len(src.Global) THEN [wf |-> w, globalModification |-> gm]
    ELSE LET newidx == Len(w.Global)
             name == GetGlobalIdentifier(src.globalNames, idx, TRUE)
             w2 == [w EXCEPT !.Global = Append(@, src.Global[idx + 1]),
                             !.globalNames = IF name # "" THEN Put(@, newidx, name) ELSE @]
         IN  AddGlobalsFrom(w2, src, idx + 1, Put(gm, idx, newidx))

\* index of the first host import with the module and name of i, else -1
FindImport(w, i) ==
    LET hits == {nidx \in 0..(Len(w.Import) - 1) :
                    /\ w.Import[nidx + 1].Module = i.Module
                    /\ w.Import[nidx + 1].Name = i.Name}
    IN  IF hits # {} THEN Min(hits) ELSE -1

\* faulty variant: the donor's calls are sent to the end of the import
\* vector, as the insert branch does
ReuseImport_append(m, w, src, idx) ==
    [m EXCEPT !.callModification = Put(@, idx, Len(w.Import)),
              !.idx = @ + 1]

\* faulty variant: the callback is also invoked, with the identity, for a
\* reused import
ReuseImport_callback(m, w, src, idx) ==
    LET newidx == FindImport(w, src.Import[idx + 1])
        fnFrom == GetFunctionIdentifier(src.FunctionNames, idx, FALSE)
        fnTo == GetFunctionIdentifier(w.FunctionNames, newidx, FALSE)
    IN  [m EXCEPT !.importFuncModifications = Put(@, fnFrom, fnTo),
                  !.callModification = Put(@, idx, newidx),
                  !.remaps = Append(@, [i \in 0..(Len(w.Code) + Len(w.Import) - 1) |-> i]),
                  !.idx = @ + 1]

\* the branch of the import loop that finds the import in the host: only
\* the rename table and the call remap of the merge (record m) change
ReuseImport(m, w, src, idx) ==
    LET newidx == FindImport(w, src.Import[idx + 1])
        fnFrom == GetFunctionIdentifier(src.FunctionNames, idx, FALSE)
        fnTo == GetFunctionIdentifier(w.FunctionNames, newidx, FALSE)
    IN  [m EXCEPT !.importFuncModifications = Put(@, fnFrom, fnTo),
                  !.callModification = Put(@, idx, newidx),
                  !.idx = @ + 1]

\* faulty variant: the function that sat at the insert position stays
ImportRemap_strict(w, newidx) ==
    [i \in 0..(Len(w.Code) + Len(w.Import) - 1) |-> IF i > newidx THEN i + 1 ELSE i]

\* the remap built after the import was appended
ImportRemap(w, newidx) ==
    [i \in 0..(Len(w.Code) + Len(w.Import) - 1) |-> IF i >= newidx THEN i + 1 ELSE i]

ShiftExports(Export, newidx) ==
    [x \in 1..Len(Export) |->
        IF Export[x].Type = ExportFunc /\ Export[x].Index >= newidx
        THEN [Export[x] EXCEPT !.Index = @ + 1]
        ELSE Export[x]]

FixupElems(Elem, rmap) ==
    [x \in 1..Len(Elem) |->
        [Elem[x] EXCEPT !.Indexes =
            [q \in 1..Len(@) |-> IF @[q] \in DOMAIN rmap THEN rmap[@[q]] ELSE @[q]]]]

\* the branch of the import loop that adds a new import to the host
InsertImport(w, h, src, idx) ==
    LET i == src.Import[idx + 1]
        newidx == Len(w.Import)
        tm == AddTypeMaybe(w.Type, src.Type[i.Index + 1])
        w1 == [w EXCEPT !.Type = tm.Type,
                        !.Import = Append(@, [i EXCEPT !.Index = tm.idx])]
        rmap == ImportRemap(w1, newidx)
        w2 == Renumber_functions(w1, rmap)
        name == GetFunctionIdentifier(src.FunctionNames, idx, TRUE)
        w3 == [w2 EXCEPT !.FunctionNames = IF name # "" THEN Put(@, newidx, name) ELSE @,
                         !.Export = ShiftExports(@, newidx),
                         !.Elem = FixupElems(@, rmap)]
    IN  [wf |-> w3, heap |-> ModifyAllCallsInCode(h, w.Code, rmap), rmap |-> rmap]

\* faulty variant: the call remap is keyed by the position in the donor's
\* function vector, not by the donor's function index
RECURSIVE AddFunctionEntries_key(_, _, _, _)
AddFunctionEntries_key(w, src, idx, cm) ==
    IF idx >= Len(src.Function) THEN [wf |-> w, callModification |-> cm]
    ELSE LET f == src.Function[idx + 1]
             name == GetFunctionIdentifier(src.FunctionNames, Len(src.Import) + idx, TRUE)
             newidx == Len(w.Import) + Len(w.Function)
             tm == AddTypeMaybe(w.Type, src.Type[f.TypeIndex + 1])
             w2 == [w EXCEPT !.Type = tm.Type,
                             !.Function = Append(@, [f EXCEPT !.TypeIndex = tm.idx]),
                             !.FunctionNames = IF name # "" THEN Put(@, newidx, name) ELSE @]
         IN  AddFunctionEntries_key(w2, src, idx + 1, Put(cm, idx, newidx))

\* the functions loop
RECURSIVE AddFunctionEntries(_, _, _, _)
AddFunctionEntries(w, src, idx, cm) ==
    IF idx >= Len(src.Function) THEN [wf |-> w, callModification |-> cm]
    ELSE LET f == src.Function[idx + 1]
             name == GetFunctionIdentifier(src.FunctionNames, Len(src.Import) + idx, TRUE)
             newidx == Len(w.Import) + Len(w.Function)
             tm == AddTypeMaybe(w.Type, src.Type[f.TypeIndex + 1])
             w2 == [w EXCEPT !.Type = tm.Type,
                             !.Function = Append(@, [f EXCEPT !.TypeIndex = tm.idx]),
                             !.FunctionNames = IF name # "" THEN Put(@, newidx, name) ELSE @]
         IN  AddFunctionEntries(w2, src, idx + 1, Put(cm, Len(src.Import) + idx, newidx))

\* the code loop: rewrite each donor body, then append it
RECURSIVE AddCodeEntries(_, _, _, _, _)
AddCodeEntries(w, h, src, idx, m) ==
    IF idx >= Len(src.Code) THEN [wf |-> w, heap |-> h]
    ELSE LET c == src.Code[idx + 1]
             addrs == [p \in 1..Len(c.Expression) |-> Len(h) + p]
             h0 == h \o c.Expression
             h1 == ModifyAllCalls(h0, addrs, m.callModification)
             h2 == ModifyAllGlobals(h1, addrs, m.globalModification)
             h3 == ModifyUnresolvedFunctions(h2, addrs, m.importFuncModifications)
             w2 == [w EXCEPT !.Code = Append(@, [c EXCEPT !.Expression = addrs])]
         IN  AddCodeEntries(w2, h3, src, idx + 1, m)

AddFuncsFrom_Globals(d) ==
    /\ pc = "idle"
    /\ d \notin used.funcs
    /\ LET r == AddGlobalsFrom(wf, Donors[d], 0, EmptyMap)
       IN  /\ wf' = r.wf
           /\ mg' = [src |-> d, idx |-> 0, globalModification |-> r.globalModification,
                     callModification |-> EmptyMap, importFuncModifications |-> EmptyMap,
                     before |-> wf, heapBefore |-> heap, remaps |-> <<>>]
    /\ pc' = "imports"
    /\ used' = [used EXCEPT !.funcs = @ \cup {d}]
    /\ log' = [op |-> "AddFuncsFrom", src |-> d]
    /\ UNCHANGED <<heap, edits>>
    /\ res' = NoPass

AddFuncsFrom_ImportReuse ==
    /\ pc = "imports"
    /\ mg.idx < Len(Donors[mg.src].Import)
    /\ FindImport(wf, Donors[mg.src].Import[mg.idx + 1]) # -1
    /\ mg' = ReuseImport(mg, wf, Donors[mg.src], mg.idx)
    /\ UNCHANGED <<wf, heap, pc, used, log, edits>>
    /\ res' = NoPass

AddFuncsFrom_ImportInsert ==
    /\ pc = "imports"
    /\ mg.idx < Len(Donors[mg.src].Import)
    /\ LET src == Donors[mg.src]
           r == InsertImport(wf, heap, src, mg.idx)
       IN  /\ FindImport(wf, src.Import[mg.idx + 1]) = -1
           /\ wf' = r.wf
           /\ heap' = r.heap
           /\ mg' = [mg EXCEPT !.callModification = Put(@, mg.idx, Len(wf.Import)),
                               !.remaps = Append(@, r.rmap),
                               !.idx = @ + 1]
    /\ UNCHANGED <<pc, used, log, edits>>
    /\ res' = NoPass

AddFuncsFrom_Functions ==
    /\ pc = "imports"
    /\ mg.idx = Len(Donors[mg.src].Import)
    /\ LET r == AddFunctionEntries(wf, Donors[mg.src], 0, mg.callModification)
       IN  /\ wf' = r.wf
           /\ mg' = [mg EXCEPT !.callModification = r.callModification]
    /\ pc' = "code"
    /\ UNCHANGED <<heap, used, log, edits>>
    /\ res' = NoPass

AddFuncsFrom_Code ==
    /\ pc = "code"
    /\ LET r == AddCodeEntries(wf, heap, Donors[mg.src], 0, mg)
       IN  /\ wf' = r.wf
           /\ heap' = r.heap
    /\ pc' = "idle"
    /\ UNCHANGED <<mg, used, log, edits>>
    /\ res' = NoPass

(***************************************************************************)
(* Instruction text.  A line of text is its list of tokens, a snippet a    *)
(* list of lines; the token ";;" starts a comment.                         *)
(***************************************************************************)
SimpleOps == {"memory.grow", "memory.size", "i32.add", "return", "end", "drop", "nop"}

\* the part of a line before its comment
RECURSIVE StripComment(_)
StripComment(line) ==
    IF line = <<>> THEN <<>>
    ELSE IF Head(line) = ";;" THEN <<>>
    ELSE <<Head(line)>> \o StripComment(Tail(line))

GetLineNumberInfo(w, pcv) == IF pcv \in DOMAIN w.lineNumbers THEN w.lineNumbers[pcv] ELSE ""

\* Expression.EncodeWat: mnemonic, operand, then the source-line comment
EncodeWat(e, w) ==
    LET info == GetLineNumberInfo(w, e.PC)
        comment == IF info # "" THEN <<";;", "Src", "=", info>> ELSE <<>>
    IN  CASE e.Opcode \in SimpleOps -> <<e.Opcode>> \o comment
          [] e.Opcode = "i32.const" -> <<e.Opcode, ToString(e.I32Value)>> \o comment
          [] e.Opcode \in {"global.get", "global.set"} ->
                <<e.Opcode, GetGlobalIdentifier(w.globalNames, e.GlobalIndex, FALSE)>> \o comment
          [] e.Opcode = "call" ->
                <<e.Opcode, GetFunctionIdentifier(w.FunctionNames, e.FuncIndex, FALSE)>> \o comment
          [] e.Opcode = "call_indirect" ->
                <<e.Opcode, "(type", ToString(e.TypeIndex) \o ")">> \o comment

\* Expression.DecodeWat of one comment-free line against module w; a
\* symbolic operand the module does not know leaves its needs_linking flag
DecodeWat(line, w) ==
    LET op == line[1]
        arg == line[2]
    IN  IF Len(line) = 1 /\ op \in SimpleOps
        THEN [ok |-> TRUE, e |-> Expression(op)]
        ELSE IF Len(line) = 2 /\ op = "call"
        THEN [ok |-> TRUE,
              e |-> IF arg \in NumericIds THEN Call(Atoi(arg))
                    ELSE IF LookupFunctionID(w, arg) # -1 THEN Call(LookupFunctionID(w, arg))
                    ELSE CallSym(arg)]
        ELSE IF Len(line) = 2 /\ op \in {"global.get", "global.set"}
        THEN [ok |-> TRUE,
              e |-> IF arg \in NumericIds THEN [Expression(op) EXCEPT !.GlobalIndex = Atoi(arg)]
                    ELSE IF LookupGlobalID(w, arg) # -1
                    THEN [Expression(op) EXCEPT !.GlobalIndex = LookupGlobalID(w, arg)]
                    ELSE [Expression(op) EXCEPT !.GlobalNeedsLinking = TRUE, !.GlobalId = arg]]
        ELSE IF Len(line) = 2 /\ op = "i32.const" /\ arg \in NumericIds
        THEN [ok |-> TRUE, e |-> I32Const(Atoi(arg))]
        ELSE IF Len(line) = 3 /\ op = "i32.const" /\ arg = "offset"
        THEN [ok |-> TRUE, e |-> I32Offset(line[3])]
        ELSE IF Len(line) = 3 /\ op = "i32.const" /\ arg = "length"
        THEN [ok |-> TRUE, e |-> I32Length(line[3])]
        ELSE [ok |-> FALSE, e |-> Expression("unreachable")]

\* ExpressionFromWat: line by line, comments and blank lines dropped, the
\* first line the decoder rejects ends the parse with its error
RECURSIVE ExpressionFromWat(_, _, _)
ExpressionFromWat(lines, w, newex) ==
    IF lines = <<>> THEN [newex |-> newex, err |-> "nil"]
    ELSE LET toline == StripComment(Head(lines))
         IN  IF Len(toline) > 0
             THEN LET r == DecodeWat(toline, w)
                  IN  IF ~r.ok THEN [newex |-> newex, err |-> "decode error"]
                      ELSE ExpressionFromWat(Tail(lines), w, Append(newex, r.e))
             ELSE ExpressionFromWat(Tail(lines), w, newex)

(***************************************************************************)
(* Edits of one code entry                                                 *)
(***************************************************************************)
\* faulty variant: only the first match is replaced
RECURSIVE ReplaceLoop_first(_, _, _, _, _)
ReplaceLoop_first(body, h, w, from, ne) ==
    IF body = <<>> THEN <<>>
    ELSE IF StripComment(EncodeWat(h[Head(body)], w)) = from THEN ne \o Tail(body)
    ELSE <<Head(body)>> \o ReplaceLoop_first(Tail(body), h, w, from, ne)

\* the loop of ReplaceInstr: the same pointers ne are appended at every match
RECURSIVE ReplaceLoop(_, _, _, _, _)
ReplaceLoop(body, h, w, from, ne) ==
    IF body = <<>> THEN <<>>
    ELSE (IF StripComment(EncodeWat(h[Head(body)], w)) = from THEN ne ELSE <<Head(body)>>)
         \o ReplaceLoop(Tail(body), h, w, from, ne)

ReplaceInstr(w, h, k, from, to) ==
    LET r == ExpressionFromWat(to, w, <<>>)
        ne == [p \in 1..Len(r.newex) |-> Len(h) + p]
    IN  IF r.err # "nil" THEN [wf |-> w, heap |-> h, err |-> r.err]
        ELSE [wf |-> [w EXCEPT !.Code[k].Expression =
                         ReplaceLoop(@, h \o r.newex, w, from, ne)],
              heap |-> h \o r.newex, err |-> "nil"]

\* faulty variant: the snippet goes in front of the flagged instruction
RECURSIVE InsertLoop_before(_, _, _)
InsertLoop_before(body, h, ne) ==
    IF body = <<>> THEN <<>>
    ELSE (IF h[Head(body)].DataOffsetNeedsLinking THEN ne \o <<Head(body)>> ELSE <<Head(body)>>)
         \o InsertLoop_before(Tail(body), h, ne)

\* the loop of InsertAfterRelocating
RECURSIVE InsertLoop(_, _, _)
InsertLoop(body, h, ne) ==
    IF body = <<>> THEN <<>>
    ELSE (IF h[Head(body)].DataOffsetNeedsLinking THEN <<Head(body)>> \o ne ELSE <<Head(body)>>)
         \o InsertLoop(Tail(body), h, ne)

InsertAfterRelocating(w, h, k, to) ==
    LET r == ExpressionFromWat(to, w, <<>>)
        ne == [p \in 1..Len(r.newex) |-> Len(h) + p]
    IN  IF r.err # "nil" THEN [wf |-> w, heap |-> h, err |-> r.err]
        ELSE [wf |-> [w EXCEPT !.Code[k].Expression = InsertLoop(@, h \o r.newex, ne)],
              heap |-> h \o r.newex, err |-> "nil"]

FromTexts == {<<"memory.grow">>, <<"memory.size">>}

ToTexts == {<<(<<"call", "$main">>)>>,
            <<(<<"call", "$debug_memory_grow", ";;", "patched">>), <<>>, (<<"drop">>)>>,
            <<(<<"drop">>), (<<"memory.shrink">>)>>}

RelocTexts == {<<(<<"global.get", "$base">>), (<<"i32.add">>)>>,
               <<(<<"i32.plus">>)>>}

DoReplaceInstr(k, from, to) ==
    /\ pc = "idle"
    /\ edits < MaxEdits
    /\ k \in 1..Len(wf.Code)
    /\ LET r == ReplaceInstr(wf, heap, k, from, to)
       IN  /\ wf' = r.wf
           /\ heap' = r.heap
           /\ log' = [op |-> "ReplaceInstr", k |-> k, from |-> from, to |-> to,
                      err |-> r.err, body |-> wf.Code[k].Expression]
    /\ edits' = edits + 1
    /\ UNCHANGED <<pc, mg, used>>
    /\ res' = NoPass

DoInsertAfterRelocating(k, to) ==
    /\ pc = "idle"
    /\ edits < MaxEdits
    /\ k \in 1..Len(wf.Code)
    /\ LET r == InsertAfterRelocating(wf, heap, k, to)
       IN  /\ wf' = r.wf
           /\ heap' = r.heap
           /\ log' = [op |-> "InsertAfterRelocating", k |-> k, to |-> to,
                      err |-> r.err, body |-> wf.Code[k].Expression, res |-> res]
    /\ edits' = edits + 1
    /\ UNCHANGED <<pc, mg, used>>
    /\ res' = NoPass

(***************************************************************************)
(* AddDataFrom                                                             *)
(***************************************************************************)
\* ptr = (ptr + 7) & -8
\* faulty variant: the next segment starts where the last one ends
Align8_none(ptr) == ptr

Align8(ptr) == WrapI32((ptr + 7) - ((ptr + 7) % 8))

RECURSIVE AddDataFrom(_, _, _, _)
AddDataFrom(w, ptr, src, idx) ==
    IF idx >= Len(src.Data) THEN [wf |-> w, ret |-> ptr]
    ELSE LET d == src.Data[idx + 1]
             src_name == GetDataIdentifier(src.dataNames, idx)
             newidx == Len(w.Data)
             w2 == [w EXCEPT !.Data = Append(@, [d EXCEPT !.Offset = <<I32Const(ptr)>>]),
                             !.dataNames = Put(@, newidx, src_name)]
         IN  AddDataFrom(w2, Align8(WrapI32(ptr + Len(d.Data))), src, idx + 1)

DataBases == {-16, 0, 20, 65536, MaxI32 - 7, MaxI32 - 3}

DoAddDataFrom(addr, d) ==
    /\ pc = "idle"
    /\ d \notin used.data
    /\ d \notin used.funcs
    /\ LET r == AddDataFrom(wf, addr, Donors[d], 0)
           n0 == Len(wf.Data)
       IN  /\ wf' = r.wf
           /\ log' = [op |-> "AddDataFrom", addr |-> addr, src |-> d, ret |-> r.ret,
                      before |-> wf.Data]
           /\ used' = [used EXCEPT
                 !.data = @ \cup {d},
                 !.placed = [id \in (DOMAIN @) \cup
                                {r.wf.dataNames[x] : x \in n0..(Len(r.wf.Data) - 1)} |->
                               IF \E x \in n0..(Len(r.wf.Data) - 1) : r.wf.dataNames[x] = id
                               THEN r.wf.Data[(CHOOSE x \in n0..(Len(r.wf.Data) - 1) :
                                                 r.wf.dataNames[x] = id) + 1].Offset[1].I32Value
                               ELSE @[id]]]
    /\ UNCHANGED <<heap, pc, mg, edits>>
    /\ res' = NoPass

(***************************************************************************)
(* Late-binding resolution of one code entry                              *)
(***************************************************************************)
RECURSIVE ResolveGlobals(_, _, _)
ResolveGlobals(h, body, w) ==
    IF body = <<>> THEN [heap |-> h, err |-> "nil"]
    ELSE LET a == Head(body)
             gid == LookupGlobalID(w, h[a].GlobalId)
         IN  IF h[a].GlobalNeedsLinking
             THEN IF gid = -1
                  THEN [heap |-> h, err |-> "Global target not found (" \o h[a].GlobalId \o ")"]
                  ELSE ResolveGlobals([h EXCEPT ![a].GlobalIndex = gid], Tail(body), w)
             ELSE ResolveGlobals(h, Tail(body), w)

\* faulty variant: an identifier that is not found is passed over
RECURSIVE ResolveFunctions_lenient(_, _, _)
ResolveFunctions_lenient(h, body, w) ==
    IF body = <<>> THEN [heap |-> h, err |-> "nil"]
    ELSE LET a == Head(body)
             fid == LookupFunctionID(w, h[a].FunctionId)
         IN  IF h[a].FunctionNeedsLinking /\ fid # -1
             THEN ResolveFunctions_lenient([h EXCEPT ![a].FuncIndex = fid], Tail(body), w)
             ELSE ResolveFunctions_lenient(h, Tail(body), w)

RECURSIVE ResolveFunctions(_, _, _)
ResolveFunctions(h, body, w) ==
    IF body = <<>> THEN [heap |-> h, err |-> "nil"]
    ELSE LET a == Head(body)
             fid == LookupFunctionID(w, h[a].FunctionId)
         IN  IF h[a].FunctionNeedsLinking
             THEN IF fid = -1
                  THEN [heap |-> h, err |-> "Function target not found (" \o h[a].FunctionId \o ")"]
                  ELSE ResolveFunctions([h EXCEPT ![a].FuncIndex = fid], Tail(body), w)
             ELSE ResolveFunctions(h, Tail(body), w)

RECURSIVE ResolveLengths(_, _, _)
ResolveLengths(h, body, w) ==
    IF body = <<>> THEN [heap |-> h, err |-> "nil"]
    ELSE LET a == Head(body)
             did == LookupDataId(w, h[a].I32DataId)
         IN  IF h[a].DataLengthNeedsLinking
             THEN IF did = -1
                  THEN [heap |-> h, err |-> "Data not found " \o h[a].I32DataId]
                  ELSE ResolveLengths([h EXCEPT ![a].I32Value =
                                          WrapI32(Len(w.Data[did + 1].Data))],
                                      Tail(body), w)
             ELSE ResolveLengths(h, Tail(body), w)

\* faulty variant: only the length of the offset expression is tested
RECURSIVE ResolveRelocations_anyop(_, _, _, _)
ResolveRelocations_anyop(h, body, w, base_pointer) ==
    IF body = <<>> THEN [heap |-> h, err |-> "nil"]
    ELSE LET a == Head(body)
             did == LookupDataId(w, h[a].I32DataId)
             expr == w.Data[did + 1].Offset
         IN  IF h[a].DataOffsetNeedsLinking
             THEN IF did = -1
                  THEN [heap |-> h, err |-> "Data not found " \o h[a].I32DataId]
                  ELSE IF Len(expr) # 1
                  THEN [heap |-> h, err |-> "Can only deal with i32.const for now"]
                  ELSE ResolveRelocations_anyop(
                          [h EXCEPT ![a].I32Value =
                              WrapI32(expr[1].I32Value - WrapI32(base_pointer))],
                          Tail(body), w, base_pointer)
             ELSE ResolveRelocations_anyop(h, Tail(body), w, base_pointer)

\* faulty variant: the absolute address is stored, the base is not subtracted
RECURSIVE ResolveRelocations_nobase(_, _, _, _)
ResolveRelocations_nobase(h, body, w, base_pointer) ==
    IF body = <<>> THEN [heap |-> h, err |-> "nil"]
    ELSE LET a == Head(body)
             did == LookupDataId(w, h[a].I32DataId)
             expr == w.Data[did + 1].Offset
         IN  IF h[a].DataOffsetNeedsLinking
             THEN IF did = -1
                  THEN [heap |-> h, err |-> "Data not found " \o h[a].I32DataId]
                  ELSE IF Len(expr) # 1 \/ expr[1].Opcode # "i32.const"
                  THEN [heap |-> h, err |-> "Can only deal with i32.const for now"]
                  ELSE ResolveRelocations_nobase(
                          [h EXCEPT ![a].I32Value = expr[1].I32Value],
                          Tail(body), w, base_pointer)
             ELSE ResolveRelocations_nobase(h, Tail(body), w, base_pointer)

RECURSIVE ResolveRelocations(_, _, _, _)
ResolveRelocations(h, body, w, base_pointer) ==
    IF body = <<>> THEN [heap |-> h, err |-> "nil"]
    ELSE LET a == Head(body)
             did == LookupDataId(w, h[a].I32DataId)
             expr == w.Data[did + 1].Offset
         IN  IF h[a].DataOffsetNeedsLinking
             THEN IF did = -1
                  THEN [heap |-> h, err |-> "Data not found " \o h[a].I32DataId]
                  ELSE IF Len(expr) # 1 \/ expr[1].Opcode # "i32.const"
                  THEN [heap |-> h, err |-> "Can only deal with i32.const for now"]
                  ELSE ResolveRelocations(
                          [h EXCEPT ![a].I32Value =
                              WrapI32(expr[1].I32Value - WrapI32(base_pointer))],
                          Tail(body), w, base_pointer)
             ELSE ResolveRelocations(h, Tail(body), w, base_pointer)

ResolveKinds == <<"globals", "functions", "lengths", "relocations">>

Resolve(kind, h, body, w, base) ==
    CASE kind = "globals" -> ResolveGlobals(h, body, w)
      [] kind = "functions" -> ResolveFunctions(h, body, w)
      [] kind = "lengths" -> ResolveLengths(h, body, w)
      [] kind = "relocations" -> ResolveRelocations(h, body, w, base)

ResolveBases == {0, 65536}

\* one resolution operation applied to the code entries in order, up to the
\* first error
RECURSIVE ResolveAll(_, _, _, _, _)
ResolveAll(kind, h, code, w, base) ==
    IF code = <<>> THEN [heap |-> h, err |-> "nil"]
    ELSE LET r == Resolve(kind, h, Head(code).Expression, w, base)
         IN  IF r.err # "nil" THEN r
             ELSE ResolveAll(kind, r.heap, Tail(code), w, base)

\* a resolution pass runs the four operations in turn
DoResolve(base) ==
    /\ pc = "idle"
    /\ res.n < Len(ResolveKinds)
    /\ res.n > 0 => base = res.base
    /\ LET kind == ResolveKinds[res.n + 1]
           r == ResolveAll(kind, heap, wf.Code, wf, base)
       IN  /\ heap' = r.heap
           /\ log' = [op |-> "Resolve", kind |-> kind, base |-> base, err |-> r.err]
           /\ res' = IF r.err = "nil" THEN [n |-> res.n + 1, base |-> base] ELSE res
    /\ UNCHANGED <<wf, pc, mg, used, edits>>

(***************************************************************************)
(* Binary encoding of one instruction                                      *)
(***************************************************************************)
RECURSIVE writeUvarint(_)
writeUvarint(x) ==
    IF x < 128 THEN <<x>> ELSE <<(x % 128) + 128>> \o writeUvarint(x \div 128)

RECURSIVE writeVarint(_)
writeVarint(x) ==
    LET b == x % 128
        rest == (x - b) \div 128
    IN  IF (rest = 0 /\ b < 64) \/ (rest = -1 /\ b >= 64) THEN <<b>>
        ELSE <<b + 128>> \o writeVarint(rest)

InstrToOpcode ==
    [unreachable |-> 0, nop |-> 1, end |-> 11, br |-> 12, br_if |-> 13,
     br_table |-> 14, return |-> 15, call |-> 16,
     call_indirect |-> 17, drop |-> 26, global_get |-> 35, global_set |-> 36,
     memory_size |-> 63, memory_grow |-> 64, i32_const |-> 65, i32_add |-> 106]

\* the prefix of the extended opcodes and the extended opcodes with operands
ExtendedOpcodeFC == 252

instrToOpcodeFC == [memory_copy |-> 10, memory_fill |-> 11]

\* the non-trapping truncations, 0xFC 0..7
TruncSat == 0..7

\* faulty variant: the labels are counted and not written
writeLabels_none(labels) == <<>>

RECURSIVE writeLabels(_)
writeLabels(labels) ==
    IF labels = <<>> THEN <<>>
    ELSE writeUvarint(Head(labels)) \o writeLabels(Tail(labels))

\* Expression.EncodeBinary: the bytes written and the error returned
EncodeBinary(e) ==
    CASE e.Opcode \in {"unreachable", "nop", "return", "drop", "end", "i32.add"} ->
            [bytes |-> <<CASE e.Opcode = "unreachable" -> InstrToOpcode.unreachable
                           [] e.Opcode = "nop" -> InstrToOpcode.nop
                           [] e.Opcode = "return" -> InstrToOpcode.return
                           [] e.Opcode = "drop" -> InstrToOpcode.drop
                           [] e.Opcode = "end" -> InstrToOpcode.end
                           [] e.Opcode = "i32.add" -> InstrToOpcode.i32_add>>,
             err |-> "nil"]
      [] e.Opcode \in {"memory.size", "memory.grow"} ->
            [bytes |-> <<IF e.Opcode = "memory.size" THEN InstrToOpcode.memory_size
                         ELSE InstrToOpcode.memory_grow, 0>>,
             err |-> "nil"]
      [] e.Opcode = "i32.const" ->
            [bytes |-> <<InstrToOpcode.i32_const>> \o writeVarint(e.I32Value), err |-> "nil"]
      [] e.Opcode \in {"global.get", "global.set"} ->
            [bytes |-> <<IF e.Opcode = "global.get" THEN InstrToOpcode.global_get
                         ELSE InstrToOpcode.global_set>> \o writeUvarint(e.GlobalIndex),
             err |-> "nil"]
      [] e.Opcode = "call" ->
            [bytes |-> <<InstrToOpcode.call>> \o writeUvarint(e.FuncIndex), err |-> "nil"]
      [] e.Opcode = "call_indirect" ->
            [bytes |-> <<InstrToOpcode.call_indirect>> \o writeUvarint(e.TypeIndex)
                          \o writeUvarint(e.TableIndex),
             err |-> "nil"]
      [] e.Opcode = "br_table" ->
            [bytes |-> <<InstrToOpcode.br_table>> \o writeUvarint(Len(e.Labels))
                          \o writeLabels(e.Labels) \o writeUvarint(e.LabelIndex),
             err |-> "nil"]
      [] e.Opcode \in {"br", "br_if"} ->
            [bytes |-> <<IF e.Opcode = "br" THEN InstrToOpcode.br ELSE InstrToOpcode.br_if>>
                          \o writeUvarint(e.LabelIndex),
             err |-> "nil"]
      [] e.Opcode = "0xfc" ->
            IF e.OpcodeExt = instrToOpcodeFC.memory_copy
            THEN [bytes |-> <<ExtendedOpcodeFC>> \o writeUvarint(e.OpcodeExt) \o <<0, 0>>,
                  err |-> "nil"]
            ELSE IF e.OpcodeExt = instrToOpcodeFC.memory_fill
            THEN [bytes |-> <<ExtendedOpcodeFC>> \o writeUvarint(e.OpcodeExt) \o <<0>>,
                  err |-> "nil"]
            ELSE IF e.OpcodeExt \in TruncSat
            THEN [bytes |-> <<ExtendedOpcodeFC>> \o writeUvarint(e.OpcodeExt), err |-> "nil"]
            ELSE [bytes |-> <<ExtendedOpcodeFC>> \o writeUvarint(e.OpcodeExt),
                  err |-> "Unsupported opcode 0xfc"]
      [] OTHER -> [bytes |-> <<>>, err |-> "Unsupported opcode"]

DoEncodeBinary(k, p) ==
    /\ pc = "idle"
    /\ k \in 1..Len(wf.Code)
    /\ p \in 1..Len(wf.Code[k].Expression)
    /\ LET e == heap[wf.Code[k].Expression[p]]
           r == EncodeBinary(e)
       IN  log' = [op |-> "EncodeBinary", e |-> e, bytes |-> r.bytes, err |-> r.err]
    /\ UNCHANGED <<wf, heap, pc, mg, used, edits, res>>

(***************************************************************************)
(* Binary decoding of instructions, and the round trip                     *)
(***************************************************************************)
\* unsigned LEB128: the value, the bytes consumed and whether the buffer
\* held a whole number
RECURSIVE ReadUvarint(_)
ReadUvarint(data) ==
    IF data = <<>> THEN [ok |-> FALSE, val |-> 0, n |-> 0]
    ELSE IF Head(data) < 128 THEN [ok |-> TRUE, val |-> Head(data), n |-> 1]
    ELSE LET r == ReadUvarint(Tail(data))
         IN  [ok |-> r.ok, val |-> (Head(data) - 128) + 128 * r.val, n |-> r.n + 1]

\* signed LEB128: the final group is sign-extended from its bit 0x40
RECURSIVE ReadVarint(_)
ReadVarint(data) ==
    IF data = <<>> THEN [ok |-> FALSE, val |-> 0, n |-> 0]
    ELSE IF Head(data) < 128
    THEN [ok |-> TRUE, val |-> IF Head(data) >= 64 THEN Head(data) - 128 ELSE Head(data),
          n |-> 1]
    ELSE LET r == ReadVarint(Tail(data))
         IN  [ok |-> r.ok, val |-> (Head(data) - 128) + 128 * r.val, n |-> r.n + 1]

\* (history) the number that ends at byte n of data has no redundant final
\* group
ShortU(data, n) == n <= 1 \/ data[n] # 0

ShortS(data, n) ==
    \/ n <= 1
    \/ ~ \/ data[n] = 0 /\ data[n - 1] % 128 < 64
         \/ data[n] = 127 /\ data[n - 1] % 128 >= 64

\* the labels of a br_table
RECURSIVE ReadLabels(_, _)
ReadLabels(data, count) ==
    IF count = 0 THEN [ok |-> TRUE, labels |-> <<>>, n |-> 0, short |-> TRUE]
    ELSE LET l == ReadUvarint(data)
             r == ReadLabels(SubSeq(data, l.n + 1, Len(data)), count - 1)
         IN  IF ~l.ok THEN [ok |-> FALSE, labels |-> <<>>, n |-> 0, short |-> TRUE]
             ELSE [ok |-> r.ok, labels |-> <<l.val>> \o r.labels, n |-> l.n + r.n,
                   short |-> ShortU(data, l.n) /\ r.short]

Rejected == [ok |-> FALSE, e |-> Expression("unreachable"), n |-> 0, short |-> TRUE]

OpcodeToInstr ==
    [b \in {InstrToOpcode.unreachable, InstrToOpcode.nop, InstrToOpcode.end,
            InstrToOpcode.return, InstrToOpcode.drop, InstrToOpcode.i32_add,
            InstrToOpcode.memory_size, InstrToOpcode.memory_grow,
            InstrToOpcode.global_get, InstrToOpcode.global_set,
            InstrToOpcode.br, InstrToOpcode.br_if} |->
        CASE b = InstrToOpcode.unreachable -> "unreachable"
          [] b = InstrToOpcode.nop -> "nop"
          [] b = InstrToOpcode.end -> "end"
          [] b = InstrToOpcode.return -> "return"
          [] b = InstrToOpcode.drop -> "drop"
          [] b = InstrToOpcode.i32_add -> "i32.add"
          [] b = InstrToOpcode.memory_size -> "memory.size"
          [] b = InstrToOpcode.memory_grow -> "memory.grow"
          [] b = InstrToOpcode.global_get -> "global.get"
          [] b = InstrToOpcode.global_set -> "global.set"
          [] b = InstrToOpcode.br -> "br"
          [] b = InstrToOpcode.br_if -> "br_if"]

\* the instruction at the head of data: the reserved bytes of memory.size,
\* memory.grow, memory.copy and memory.fill are read and ignored, an opcode
\* outside the tables is an error, a number cut off by the end of the data
\* is an error.  `short` (history) tells whether every number was in its
\* shortest form and every reserved byte 0
DecodeBinary(data) ==
    LET opcode == Head(data)
        rest == Tail(data)
        u == ReadUvarint(rest)
        u2 == ReadUvarint(SubSeq(rest, u.n + 1, Len(rest)))
        after == SubSeq(rest, u.n + 1, Len(rest))
    IN  IF opcode \in {InstrToOpcode.unreachable, InstrToOpcode.nop, InstrToOpcode.end,
                       InstrToOpcode.return, InstrToOpcode.drop, InstrToOpcode.i32_add}
        THEN [ok |-> TRUE, e |-> Expression(OpcodeToInstr[opcode]), n |-> 1, short |-> TRUE]
        ELSE IF opcode \in {InstrToOpcode.memory_size, InstrToOpcode.memory_grow}
        THEN IF rest = <<>> THEN Rejected
             ELSE [ok |-> TRUE, e |-> Expression(OpcodeToInstr[opcode]), n |-> 2,
                   short |-> rest[1] = 0]
        ELSE IF opcode = InstrToOpcode.i32_const
        THEN LET v == ReadVarint(rest)
             IN  IF ~v.ok THEN Rejected
                 ELSE [ok |-> TRUE, e |-> I32Const(v.val), n |-> 1 + v.n,
                       short |-> ShortS(rest, v.n)]
        ELSE IF opcode \in {InstrToOpcode.global_get, InstrToOpcode.global_set}
        THEN IF ~u.ok THEN Rejected
             ELSE [ok |-> TRUE,
                   e |-> [Expression(OpcodeToInstr[opcode]) EXCEPT !.GlobalIndex = u.val],
                   n |-> 1 + u.n, short |-> ShortU(rest, u.n)]
        ELSE IF opcode \in {InstrToOpcode.br, InstrToOpcode.br_if}
        THEN IF ~u.ok THEN Rejected
             ELSE [ok |-> TRUE,
                   e |-> [Expression(OpcodeToInstr[opcode]) EXCEPT !.LabelIndex = u.val],
                   n |-> 1 + u.n, short |-> ShortU(rest, u.n)]
        ELSE IF opcode = InstrToOpcode.call
        THEN IF ~u.ok THEN Rejected
             ELSE [ok |-> TRUE, e |-> Call(u.val), n |-> 1 + u.n, short |-> ShortU(rest, u.n)]
        ELSE IF opcode = InstrToOpcode.call_indirect
        THEN IF ~u.ok \/ ~u2.ok THEN Rejected
             ELSE [ok |-> TRUE,
                   e |-> [CallIndirect(u.val) EXCEPT !.TableIndex = u2.val],
                   n |-> 1 + u.n + u2.n,
                   short |-> ShortU(rest, u.n) /\ ShortU(after, u2.n)]
        ELSE IF opcode = InstrToOpcode.br_table
        THEN LET ls == ReadLabels(after, u.val)
                 tail == SubSeq(after, ls.n + 1, Len(after))
                 d == ReadUvarint(tail)
             IN  IF ~u.ok \/ ~ls.ok \/ ~d.ok THEN Rejected
                 ELSE [ok |-> TRUE,
                       e |-> [Expression("br_table") EXCEPT !.Labels = ls.labels,
                                                            !.LabelIndex = d.val],
                       n |-> 1 + u.n + ls.n + d.n,
                       short |-> ShortU(rest, u.n) /\ ls.short /\ ShortU(tail, d.n)]
        ELSE IF opcode = ExtendedOpcodeFC
        THEN LET reserved == IF u.val = instrToOpcodeFC.memory_copy THEN 2
                             ELSE IF u.val = instrToOpcodeFC.memory_fill THEN 1 ELSE 0
             IN  IF \/ ~u.ok
                    \/ u.val \notin TruncSat \cup {instrToOpcodeFC.memory_copy,
                                                  instrToOpcodeFC.memory_fill}
                    \/ Len(after) < reserved
                 THEN Rejected
                 ELSE [ok |-> TRUE, e |-> [Expression("0xfc") EXCEPT !.OpcodeExt = u.val],
                       n |-> 1 + u.n + reserved,
                       short |-> /\ ShortU(rest, u.n)
                                 /\ \A i \in 1..reserved : after[i] = 0]
        ELSE Rejected

\* the instructions of a byte string, each with the program counter at
\* which it starts
RECURSIVE DecodeInstructions(_, _, _)
DecodeInstructions(data, pcv, acc) ==
    IF data = <<>> THEN acc
    ELSE LET r == DecodeBinary(data)
         IN  IF ~r.ok THEN [acc EXCEPT !.ok = FALSE]
             ELSE DecodeInstructions(SubSeq(data, r.n + 1, Len(data)), pcv + r.n,
                      [ok |-> TRUE, code |-> Append(acc.code, [r.e EXCEPT !.PC = pcv]),
                       short |-> acc.short /\ r.short])

\* the bytes of a sequence of instructions, up to the first error
RECURSIVE EncodeInstructions(_)
EncodeInstructions(code) ==
    IF code = <<>> THEN [bytes |-> <<>>, err |-> "nil"]
    ELSE LET r == EncodeBinary(Head(code))
             t == EncodeInstructions(Tail(code))
         IN  IF r.err # "nil" THEN r
             ELSE [bytes |-> r.bytes \o t.bytes, err |-> t.err]

\* longest byte string decoded
MaxBinLen == 4

\* the byte values the strings are made of: opcodes with each kind of
\* operand, single-byte and continued numbers, 0 and other reserved bytes
BinBytes == {0, 1, 10, 11, 12, 14, 16, 17, 63, 65, 127, 128, 252}

Binaries == UNION {[1..n -> BinBytes] : n \in 1..MaxBinLen}

InitCodec ==
    /\ wf = HostModule("self", 0)
    /\ heap = HostHeap("self", 0)
    /\ mg = NoMerge(wf, heap)
    /\ pc = "idle"
    /\ used = [funcs |-> {}, data |-> {}, placed |-> EmptyMap]
    /\ \E B \in Binaries : log = [op |-> "Binary", B |-> B]
    /\ edits = 0
    /\ res = NoPass

\* the decoder on the bytes of a function body
DoDecodeInstructions ==
    /\ log.op = "Binary"
    /\ LET r == DecodeInstructions(log.B, 0, [ok |-> TRUE, code |-> <<>>, short |-> TRUE])
       IN  log' = [op |-> "DecodeBinary", B |-> log.B, ok |-> r.ok, code |-> r.code,
                   short |-> r.short]
    /\ UNCHANGED <<wf, heap, pc, mg, used, edits, res>>

\* the encoder on what the decoder accepted, unedited
DoEncodeInstructions ==
    /\ log.op = "DecodeBinary"
    /\ log.ok
    /\ LET r == EncodeInstructions(log.code)
       IN  log' = [op |-> "EncodeInstructions", B |-> log.B, code |-> log.code,
                   short |-> log.short, bytes |-> r.bytes, err |-> r.err]
    /\ UNCHANGED <<wf, heap, pc, mg, used, edits, res>>

NextCodec == DoDecodeInstructions \/ DoEncodeInstructions

SpecCodec == InitCodec /\ [][NextCodec]_vars

(***************************************************************************)
(* Specification                                                           *)
(***************************************************************************)
AddFuncsFrom ==
    \/ \E d \in DonorNames : AddFuncsFrom_Globals(d)
    \/ AddFuncsFrom_ImportReuse
    \/ AddFuncsFrom_ImportInsert
    \/ AddFuncsFrom_Functions
    \/ AddFuncsFrom_Code

\* merges of the donors that import what the host may already import
NextReuse ==
    \/ \E d \in {"AD", "B"} : AddFuncsFrom_Globals(d)
    \/ AddFuncsFrom_ImportReuse
    \/ AddFuncsFrom_ImportInsert
    \/ AddFuncsFrom_Functions
    \/ AddFuncsFrom_Code

SpecReuse == Init /\ [][NextReuse]_vars

\* merging, instruction replacement and encoding
Next ==
    \/ AddFuncsFrom
    \/ \E k \in 1..2, from \in FromTexts, to \in ToTexts : DoReplaceInstr(k, from, to)
    \/ \E k \in 1..4, p \in 1..6 : DoEncodeBinary(k, p)

Spec == Init /\ [][Next]_vars

\* data relocation, staged as the drivers do: donor data and merging first,
\* then a resolution pass and the relocation fixups in either order
LinkHosts == {<<"self", 0>>, <<"self", 2>>, <<"two", 1>>}

InitLink ==
    /\ Init
    /\ \E hk \in LinkHosts : wf = HostModule(hk[1], hk[2])

Merging == res.n = 0 /\ edits = 0

LinkAddDataFrom ==
    Merging /\ \E addr \in ResolveBases, d \in DonorNames : DoAddDataFrom(addr, d)

LinkAddFuncsFrom == Merging /\ AddFuncsFrom

LinkInsertAfterRelocating ==
    /\ res.n \in {0, Len(ResolveKinds)}
    /\ \E k \in 1..6, to \in RelocTexts : DoInsertAfterRelocating(k, to)

NextLink ==
    \/ LinkAddDataFrom
    \/ LinkAddFuncsFrom
    \/ \E base \in ResolveBases : DoResolve(base)
    \/ LinkInsertAfterRelocating

SpecLink == InitLink /\ [][NextLink]_vars

\* faulty variant: on a parse error the instructions parsed so far go in
InsertFuncStart_partial(w, h, k, to) ==
    LET r == ExpressionFromWat(to, w, <<>>)
        ne == [p \in 1..Len(r.newex) |-> Len(h) + p]
    IN  [wf |-> [w EXCEPT !.Code[k].Expression = ne \o @],
         heap |-> h \o r.newex, err |-> r.err]

\* InsertFuncStart: the parsed snippet, then the body
InsertFuncStart(w, h, k, to) ==
    LET r == ExpressionFromWat(to, w, <<>>)
        ne == [p \in 1..Len(r.newex) |-> Len(h) + p]
    IN  IF r.err # "nil" THEN [wf |-> w, heap |-> h, err |-> r.err]
        ELSE [wf |-> [w EXCEPT !.Code[k].Expression = ne \o @],
              heap |-> h \o r.newex, err |-> "nil"]

\* InsertFuncEnd: the body, then the parsed snippet
InsertFuncEnd(w, h, k, to) ==
    LET r == ExpressionFromWat(to, w, <<>>)
        ne == [p \in 1..Len(r.newex) |-> Len(h) + p]
    IN  IF r.err # "nil" THEN [wf |-> w, heap |-> h, err |-> r.err]
        ELSE [wf |-> [w EXCEPT !.Code[k].Expression = @ \o ne],
              heap |-> h \o r.newex, err |-> "nil"]

DoInsertFuncStart(k, to) ==
    /\ pc = "idle"
    /\ edits < MaxEdits
    /\ k \in 1..Len(wf.Code)
    /\ LET r == InsertFuncStart(wf, heap, k, to)
       IN  /\ wf' = r.wf
           /\ heap' = r.heap
           /\ log' = [op |-> "InsertFuncStart", k |-> k, to |-> to, err |-> r.err]
    /\ edits' = edits + 1
    /\ UNCHANGED <<pc, mg, used>>
    /\ res' = NoPass

DoInsertFuncEnd(k, to) ==
    /\ pc = "idle"
    /\ edits < MaxEdits
    /\ k \in 1..Len(wf.Code)
    /\ LET r == InsertFuncEnd(wf, heap, k, to)
       IN  /\ wf' = r.wf
           /\ heap' = r.heap
           /\ log' = [op |-> "InsertFuncEnd", k |-> k, to |-> to, err |-> r.err]
    /\ edits' = edits + 1
    /\ UNCHANGED <<pc, mg, used>>
    /\ res' = NoPass

\* the four edits of a code entry that parse a text
NextEdit ==
    \/ \E k \in 1..2, from \in FromTexts, to \in ToTexts : DoReplaceInstr(k, from, to)
    \/ \E k \in 1..2, to \in ToTexts : DoInsertFuncStart(k, to)
    \/ \E k \in 1..2, to \in ToTexts : DoInsertFuncEnd(k, to)
    \/ \E k \in 1..2, to \in RelocTexts : DoInsertAfterRelocating(k, to)

SpecEdit == Init /\ [][NextEdit]_vars

\* placing donor data at arbitrary base addresses
NextData == \E addr \in DataBases, d \in DonorNames : DoAddDataFrom(addr, d)

SpecData == Init /\ [][NextData]_vars

\* AddData: one new segment, placed after the end of the segment stored last
AddData(w, name, data) ==
    LET prev == w.Data[Len(w.Data)]
        ptr == IF Len(w.Data) > 0
               THEN WrapI32(prev.Offset[1].I32Value + Len(prev.Data))
               ELSE 0
        idx == Len(w.Data)
    IN  [w EXCEPT !.Data = Append(@, [MemIndex |-> 0,
                                      Offset |-> <<I32Const(Align8(ptr))>>,
                                      Data |-> data]),
                  !.dataNames = Put(@, idx, name)]

\* the names strace gives to its segments, and function names of 0, 3 and 9 bytes
AddDataNames == {"$function_name_0", "$function_name_1"}
AddDataBytes == {<<>>, <<102, 111, 111>>, <<109, 97, 105, 110, 46, 109, 97, 105, 110>>}

DoAddData(name, data) ==
    /\ pc = "idle"
    /\ edits < MaxEdits
    /\ wf' = AddData(wf, name, data)
    /\ log' = [op |-> "AddData", name |-> name, data |-> data, before |-> wf.Data]
    /\ edits' = edits + 1
    /\ UNCHANGED <<heap, pc, mg, used>>
    /\ res' = NoPass

\* AddData on hosts whose segments came from the module and from AddDataFrom
NextAddData ==
    \/ \E addr \in DataBases, d \in DonorNames : DoAddDataFrom(addr, d)
    \/ \E name \in AddDataNames, data \in AddDataBytes : DoAddData(name, data)

SpecAddData == Init /\ [][NextAddData]_vars

\* type entries handed to AddTypeMaybe: equal and different lengths, equal
\* lengths with different elements
TypeIL == [Param |-> <<"i32", "i64">>, Result |-> <<>>]
TypeIrL == [Param |-> <<"i32">>, Result |-> <<"i64">>]

TypePool == {TypeV, TypeI, TypeII, TypeL, TypeIL, TypeIrL}

\* AddTypeMaybe called on the host; `nth` tells the calls of a pair apart
DoAddTypeMaybe(te) ==
    /\ pc = "idle"
    /\ LET r == AddTypeMaybe(wf.Type, te)
       IN  /\ wf' = [wf EXCEPT !.Type = r.Type]
           /\ log' = [op |-> "AddTypeMaybe", te |-> te, idx |-> r.idx, before |-> wf.Type,
                      nth |-> IF log.op = "AddTypeMaybe" THEN 3 - log.nth ELSE 1]
    /\ UNCHANGED <<heap, pc, mg, used, edits, res>>

\* type interning, called directly and from inside a merge
NextTypes ==
    \/ \E te \in TypePool : DoAddTypeMaybe(te)
    \/ AddFuncsFrom

SpecTypes == Init /\ [][NextTypes]_vars

\* a module as the text decoder hands it over, with symbolic operands still
\* to be resolved: data offsets that are one i32.const, empty, two
\* instructions, and one global.get
WatX ==
    [Type |-> <<TypeV>>,
     Import |-> <<>>,
     Function |-> [i \in 1..5 |-> [TypeIndex |-> 0]],
     Code |-> <<CodeEntry(<<I32Offset("$X0"), CallSym("$xf"), GlobalGetSym("$xg"),
                            I32Length("$X0")>>),
                CodeEntry(<<I32Offset("$X0"), I32Offset("$X1"), I32Offset("$X0")>>),
                CodeEntry(<<I32Offset("$X2"), I32Length("$X2")>>),
                CodeEntry(<<Expression("nop"), I32Offset("$X3"), I32Offset("$nodata")>>),
                CodeEntry(<<CallSym("$xf"), CallSym("$nofn"), GlobalGetSym("$noglob"),
                            I32Length("$nolen"), I32Offset("$nodata"), CallSym("$nofn2"),
                            I32Offset("$X1")>>)>>,
     Global |-> <<GlobalEntry("x0")>>,
     Data |-> <<DataEntry(24, <<1, 2>>),
                [MemIndex |-> 0, Offset |-> <<>>, Data |-> <<3>>],
                [MemIndex |-> 0, Offset |-> <<I32Const(8), I32Const(8)>>, Data |-> <<4, 5, 6>>],
                [MemIndex |-> 0, Offset |-> <<GlobalGet(0)>>, Data |-> <<7>>]>>,
     FunctionNames |-> Put(EmptyMap, 0, "$xf"),
     globalNames |-> Put(EmptyMap, 0, "$xg"),
     dataNames |-> Put(Put(Put(Put(EmptyMap, 0, "$X0"), 1, "$X1"), 2, "$X2"), 3, "$X3")]

WatInputs == [C |-> DonorC, AD |-> DonorAD, X |-> WatX]

\* the module src as a WasmFile of its own, its bodies laid out in a fresh heap
WatLayout(src) ==
    AddCodeEntries([src EXCEPT !.Code = <<>>], <<>>, src, 0,
                   [callModification |-> EmptyMap, globalModification |-> EmptyMap,
                    importFuncModifications |-> EmptyMap])

WatModule(src) ==
    [Type |-> src.Type, Import |-> src.Import, Function |-> src.Function,
     Code |-> WatLayout(src).wf.Code, Export |-> <<>>, Elem |-> <<>>,
     Global |-> src.Global, Data |-> src.Data, FunctionNames |-> src.FunctionNames,
     functionDebug |-> EmptyMap, functionSignature |-> EmptyMap,
     globalNames |-> src.globalNames, dataNames |-> src.dataNames,
     lineNumbers |-> EmptyMap,
     localNames |-> <<>>]

InitResolve ==
    /\ \E n \in DOMAIN WatInputs :
         /\ wf = WatModule(WatInputs[n])
         /\ heap = WatLayout(WatInputs[n]).heap
         /\ mg = NoMerge(WatModule(WatInputs[n]), WatLayout(WatInputs[n]).heap)
    /\ pc = "idle"
    /\ used = [funcs |-> {}, data |-> {}, placed |-> EmptyMap]
    /\ log = NoLog
    /\ edits = 0
    /\ res = NoPass

\* one Resolve operation on one code entry; `before` is the heap it found
DoResolveEntry(kind, k, base) ==
    /\ pc = "idle"
    /\ k \in 1..Len(wf.Code)
    /\ LET r == Resolve(kind, heap, wf.Code[k].Expression, wf, base)
       IN  /\ heap' = r.heap
           /\ log' = [op |-> "ResolveEntry", kind |-> kind, k |-> k, base |-> base,
                      err |-> r.err, before |-> heap]
    /\ UNCHANGED <<wf, pc, mg, used, edits, res>>

\* resolution of the code entries of a text-decoded module, in any order
NextResolve ==
    \E kind \in Range(ResolveKinds), k \in 1..5, base \in ResolveBases :
       DoResolveEntry(kind, k, base)

SpecResolve == InitResolve /\ [][NextResolve]_vars

(***************************************************************************)
(* DWARF variables                                                         *)
(***************************************************************************)
DW_OP_WASM_location == 237
DW_Location_Local == 0
DW_Location_Global == 1
DW_Location_Stack == 2
DW_Location_Global_i32 == 3
DW_OP_stack_value == 159
DW_OP_piece == 147

\* width at which the uint32 words of .debug_loc are modelled
U32Bits == 20

U32(x) == x % Pow2(U32Bits)

\* the low word of a location-list entry that sets the base address: all
\* bits set
BaseAddressSelection == Pow2(U32Bits) - 1

\* binary.Uvarint: the value and the number of bytes read, 0 bytes when the
\* buffer ends inside the number
RECURSIVE Uvarint(_)
Uvarint(data) ==
    IF data = <<>> THEN [val |-> 0, l |-> 0]
    ELSE IF Head(data) < 128 THEN [val |-> Head(data), l |-> 1]
    ELSE LET r == Uvarint(Tail(data))
         IN  IF r.l = 0 THEN [val |-> 0, l |-> 0]
             ELSE [val |-> (Head(data) - 128) + 128 * r.val, l |-> r.l + 1]

\* the four bytes as a little-endian word, at the width of U32: the fourth
\* byte and the high bits of the third lie above that width
LittleEndianUint32(data) ==
    U32(data[1] + 256 * data[2] + 65536 * (data[3] % Pow2(U32Bits - 16)))

\* faulty variant: only kind 1 counts as a global
WasmLocation_kind1(t, index) ==
    [isLocal |-> t = DW_Location_Local, isGlobal |-> t = DW_Location_Global,
     isStack |-> t = DW_Location_Stack, index |-> index]

WasmLocation(t, index) ==
    [isLocal |-> t = DW_Location_Local,
     isGlobal |-> t = DW_Location_Global \/ t = DW_Location_Global_i32,
     isStack |-> t = DW_Location_Stack,
     index |-> index]

\* extractWasmDwarfExpression: the wasm locations of a location expression
\* up to its first unknown opcode.  `panic` tells that the walk indexed or
\* sliced the data beyond its end, which aborts the program
RECURSIVE extractWasmDwarfExpression(_, _)
extractWasmDwarfExpression(data, locs) ==
    IF Len(data) = 0 THEN [locs |-> locs, panic |-> FALSE]
    ELSE LET opcode == Head(data)
             data1 == Tail(data)
         IN  IF opcode = DW_OP_stack_value THEN extractWasmDwarfExpression(data1, locs)
             ELSE IF opcode = DW_OP_piece
             THEN extractWasmDwarfExpression(
                      SubSeq(data1, Uvarint(data1).l + 1, Len(data1)), locs)
             ELSE IF opcode = DW_OP_WASM_location
             THEN IF Len(data1) = 0 THEN [locs |-> locs, panic |-> TRUE]
                  ELSE LET t == Head(data1)
                           data2 == Tail(data1)
                       IN  IF t = 3 /\ Len(data2) < 4 THEN [locs |-> locs, panic |-> TRUE]
                           ELSE LET index == IF t = 3 THEN LittleEndianUint32(data2)
                                             ELSE Uvarint(data2).val
                                    l == IF t = 3 THEN 4 ELSE Uvarint(data2).l
                                IN  extractWasmDwarfExpression(
                                        SubSeq(data2, l + 1, Len(data2)),
                                        Append(locs, WasmLocation(t, index)))
             ELSE [locs |-> locs, panic |-> FALSE]

\* ReadLocation: the location list that starts at entry ptr of .debug_loc.
\* An entry stands for its words low and high and, unless it ends the list
\* or sets the base address, its length-prefixed expression
\* faulty variant: a base address selection entry is skipped without
\* taking its base
RECURSIVE ReadLocation_nobase(_, _, _, _)
ReadLocation_nobase(dwarfLoc, ptr, baseAddress, ld) ==
    LET low == dwarfLoc[ptr].low
        high == dwarfLoc[ptr].high
    IN  IF low = 0 /\ high = 0 THEN ld
        ELSE IF low = BaseAddressSelection
        THEN ReadLocation_nobase(dwarfLoc, ptr + 1, baseAddress, ld)
        ELSE ReadLocation_nobase(dwarfLoc, ptr + 1, baseAddress,
                                 Append(ld, [startAddress |-> U32(baseAddress + low),
                                             endAddress |-> U32(baseAddress + high),
                                             expression |-> dwarfLoc[ptr].expr]))

RECURSIVE ReadLocation(_, _, _, _)
ReadLocation(dwarfLoc, ptr, baseAddress, ld) ==
    LET low == dwarfLoc[ptr].low
        high == dwarfLoc[ptr].high
    IN  IF low = 0 /\ high = 0 THEN ld
        ELSE IF low = BaseAddressSelection
        THEN ReadLocation(dwarfLoc, ptr + 1, high, ld)
        ELSE ReadLocation(dwarfLoc, ptr + 1, baseAddress,
                          Append(ld, [startAddress |-> U32(baseAddress + low),
                                      endAddress |-> U32(baseAddress + high),
                                      expression |-> dwarfLoc[ptr].expr]))

\* the two ParseDwarfVariables of the repository
DwarfPackages == {"wasmfile", "pkg/wasm"}

\* the LocalNameData records one location-list entry gives a child DIE.  In
\* pkg/wasm a formal parameter is stored with the low pc of its subprogram
\* as both ends of its range
LocalNamesOf(pkg, ld, sploc, child) ==
    LET locs == SelectSeq(extractWasmDwarfExpression(ld.expression, <<>>).locs,
                          LAMBDA l : l.isLocal)
        atLowPc == pkg = "pkg/wasm" /\ child.tag = "FormalParameter"
    IN  [n \in 1..Len(locs) |->
            [StartPC |-> IF atLowPc THEN sploc ELSE ld.startAddress,
             EndPC |-> IF atLowPc THEN sploc ELSE ld.endAddress,
             Index |-> locs[n].index,
             VarName |-> child.vname]]

RECURSIVE LocationNames(_, _, _, _)
LocationNames(pkg, locdata, sploc, child) ==
    IF locdata = <<>> THEN <<>>
    ELSE LocalNamesOf(pkg, Head(locdata), sploc, child)
         \o LocationNames(pkg, Tail(locdata), sploc, child)

\* the loop over the children of one subprogram DIE
RECURSIVE ParseChildren(_, _, _, _, _)
ParseChildren(pkg, dw, sploc, children, acc) ==
    IF children = <<>> THEN acc
    ELSE LET child == Head(children)
             names == IF child.vloc # -1
                         /\ child.tag \in {"FormalParameter", "Variable"}
                      THEN LocationNames(pkg, ReadLocation(dw.loc, child.vloc, 0, <<>>),
                                         sploc, child)
                      ELSE <<>>
             acc2 == [acc EXCEPT !.localNames = @ \o names]
             acc3 == IF child.tag = "FormalParameter"
                     THEN [acc2 EXCEPT !.params = (IF Len(@) > 0 THEN @ \o ", " ELSE @)
                                           \o child.vname \o "(" \o child.vtype \o ")"]
                     ELSE IF child.tag = "Variable"
                     THEN [acc2 EXCEPT !.locals = @ \o ";; local " \o child.vname \o " "
                                                    \o child.vtype \o "\n"]
                     ELSE acc2
         IN  ParseChildren(pkg, dw, sploc, Tail(children), acc3)

\* ParseDwarfVariables from subprogram DIE number idx on
RECURSIVE ParseDwarfVariables(_, _, _, _)
ParseDwarfVariables(pkg, w, dw, idx) ==
    IF idx > Len(dw.entries) THEN w
    ELSE LET entry == dw.entries[idx]
             r == ParseChildren(pkg, dw, entry.sploc, entry.children,
                                [localNames |-> w.localNames, params |-> "", locals |-> ""])
             function_debug == ";; " \o entry.spname \o "(" \o r.params \o ")\n" \o r.locals
             fid == FindFunction(w, entry.sploc, 0)
             w2 == [w EXCEPT !.localNames = r.localNames]
             w3 == IF fid = -1 THEN w2
                   ELSE IF pkg = "pkg/wasm"
                   THEN [w2 EXCEPT !.functionDebug = Put(@, fid, function_debug),
                                   !.functionSignature =
                                       Put(@, fid, entry.spname \o "(" \o r.params \o ")")]
                   ELSE [w2 EXCEPT !.functionDebug = Put(@, fid, function_debug)]
         IN  ParseDwarfVariables(pkg, w3, dw, idx + 1)

\* GetLocalVarName: the loop over localNames from position k on
RECURSIVE GetLocalVarName(_, _, _, _)
GetLocalVarName(w, pcv, index, k) ==
    IF k > Len(w.localNames) THEN ""
    ELSE LET lnd == w.localNames[k]
         IN  IF lnd.Index = index /\ pcv >= lnd.StartPC /\ pcv <= lnd.EndPC
             THEN lnd.VarName
             ELSE GetLocalVarName(w, pcv, index, k + 1)

Param(vname, vtype, vloc) ==
    [tag |-> "FormalParameter", vname |-> vname, vtype |-> vtype, vloc |-> vloc]

Variable(vname, vtype, vloc) ==
    [tag |-> "Variable", vname |-> vname, vtype |-> vtype, vloc |-> vloc]

LocEntry(low, high, expr) == [low |-> low, high |-> high, expr |-> expr]

LocEnd == LocEntry(0, 0, <<>>)

WasmLocal(i) == <<DW_OP_WASM_location, DW_Location_Local, i>>

\* debug information as the drivers meet it: subprogram foo at low pc 100
\* with parameter x in local 0 over [100, 120); the same range given
\* relative to a base address; a subprogram at the start of the first code
\* entry with two parameters and a variable; parameters without a location
\* list, in a global and behind an unknown opcode; two parameters that share
\* a local over adjacent ranges
DwarfInputs ==
    <<[entries |-> <<[spname |-> "foo", sploc |-> 100,
                      children |-> <<Param("x", "int", 1)>>]>>,
       loc |-> <<LocEntry(100, 120, WasmLocal(0)), LocEnd>>],
      [entries |-> <<[spname |-> "foo", sploc |-> 100,
                      children |-> <<Param("x", "int", 1)>>]>>,
       loc |-> <<LocEntry(BaseAddressSelection, 100, <<>>),
                 LocEntry(0, 20, WasmLocal(0) \o <<DW_OP_stack_value>>), LocEnd>>],
      [entries |-> <<[spname |-> "main", sploc |-> 1,
                      children |-> <<Param("a", "int", 1), Param("b", "char", 3),
                                     Variable("v", "int", 5)>>]>>,
       loc |-> <<LocEntry(1, 3, WasmLocal(0)), LocEnd,
                 LocEntry(1, 3, <<DW_OP_piece, 4>> \o WasmLocal(1)), LocEnd,
                 LocEntry(2, 4, WasmLocal(2)), LocEnd>>],
      [entries |-> <<[spname |-> "foo", sploc |-> 100,
                      children |-> <<Param("p", "int", -1), Param("g", "int", 1),
                                     Param("u", "int", 3), Param("x", "int", 5)>>]>>,
       loc |-> <<LocEntry(100, 120, <<DW_OP_WASM_location, DW_Location_Global, 0>>), LocEnd,
                 LocEntry(100, 120, <<16, 0>> \o WasmLocal(0)), LocEnd,
                 LocEntry(100, 120, WasmLocal(1)), LocEnd>>],
      [entries |-> <<[spname |-> "foo", sploc |-> 100,
                      children |-> <<Param("x", "int", 1), Param("y", "int", 3)>>]>>,
       loc |-> <<LocEntry(100, 120, WasmLocal(0)), LocEnd,
                 LocEntry(120, 140, WasmLocal(0)), LocEnd>>],
      [entries |-> <<[spname |-> "foo", sploc |-> 100,
                      children |-> <<Param("x", "int", 1), Param("y", "int", 3)>>]>>,
       loc |-> <<LocEntry(100, 120, <<DW_OP_WASM_location>>), LocEnd,
                 LocEntry(100, 120, WasmLocal(1)), LocEnd>>]>>

DwarfPCs == {0, 1, 2, 3, 4, 99, 100, 110, 119, 120, 121, 139, 140, 200}

\* ParseDwarfVariables, called once on the decoded host
\* the parse aborts when one of the expressions it extracts aborts
ParsePanics(dw) ==
    \E i \in DOMAIN dw.entries : \E c \in DOMAIN dw.entries[i].children :
        LET vloc == dw.entries[i].children[c].vloc
            locdata == ReadLocation(dw.loc, vloc, 0, <<>>)
        IN  /\ vloc # -1
            /\ \E j \in DOMAIN locdata :
                   extractWasmDwarfExpression(locdata[j].expression, <<>>).panic

DoParseDwarfVariables(pkg, n) ==
    /\ pc = "idle"
    /\ log.op = "none"
    /\ wf' = IF ParsePanics(DwarfInputs[n]) THEN wf
             ELSE ParseDwarfVariables(pkg, [wf EXCEPT !.functionDebug = EmptyMap,
                                                      !.localNames = <<>>],
                                      DwarfInputs[n], 1)
    /\ log' = [op |-> "ParseDwarfVariables", pkg |-> pkg, dw |-> DwarfInputs[n],
               panic |-> ParsePanics(DwarfInputs[n])]
    /\ UNCHANGED <<heap, pc, mg, used, edits, res>>

DoGetLocalVarName(pcv, index) ==
    /\ pc = "idle"
    /\ log.op \in {"ParseDwarfVariables", "GetLocalVarName"}
    /\ ~log.panic
    /\ log' = [op |-> "GetLocalVarName", pkg |-> log.pkg, dw |-> log.dw, panic |-> FALSE,
               pc |-> pcv, index |-> index, ret |-> GetLocalVarName(wf, pcv, index, 1)]
    /\ UNCHANGED <<wf, heap, pc, mg, used, edits, res>>

NextDwarf ==
    \/ \E pkg \in DwarfPackages, n \in DOMAIN DwarfInputs : DoParseDwarfVariables(pkg, n)
    \/ \E pcv \in DwarfPCs, index \in 0..2 : DoGetLocalVarName(pcv, index)

SpecDwarf == Init /\ [][NextDwarf]_vars

\* ---- the two readers of location data on drawn inputs --------------------

MaxExprLen == 3
MaxLocLen == 3

\* opcodes, kind bytes, operand bytes and an opcode the walk does not know
ExprBytes == {0, 1, 2, 3, 128, DW_OP_piece, DW_OP_stack_value, DW_OP_WASM_location}

\* what may follow the drawn bytes: nothing, a whole fixed-width global, a
\* fixed-width global cut short
ExprTails == {<<>>,
              <<0, DW_OP_WASM_location, DW_Location_Global_i32, 1, 0, 0, 0>>,
              <<0, DW_OP_WASM_location, DW_Location_Global_i32, 2, 1, 0, 0, DW_OP_stack_value>>,
              <<0, DW_OP_WASM_location, DW_Location_Global_i32, 1, 0>>}

ExprInputs ==
    {a \o t : a \in UNION {[1..n -> ExprBytes] : n \in 0..MaxExprLen}, t \in ExprTails}

\* entries of .debug_loc: the end pair, base address selections, ranges
LocWords == {0, 1, BaseAddressSelection}

LocEntries ==
    {LocEntry(low, high, IF low = BaseAddressSelection \/ (low = 0 /\ high = 0)
                         THEN <<>> ELSE WasmLocal(high))
       : low \in LocWords, high \in LocWords \cup {2}}

\* every drawn buffer holds an end pair at or after every offset
LocInputs ==
    {l \o <<LocEnd>> : l \in UNION {[1..n -> LocEntries] : n \in 0..MaxLocLen}}

InitLocation ==
    /\ wf = HostModule("self", 0)
    /\ heap = HostHeap("self", 0)
    /\ mg = NoMerge(wf, heap)
    /\ pc = "idle"
    /\ used = [funcs |-> {}, data |-> {}, placed |-> EmptyMap]
    /\ \/ \E data \in ExprInputs : log = [op |-> "Expression", data |-> data]
       \/ \E loc \in LocInputs : \E p \in DOMAIN loc :
             log = [op |-> "DebugLoc", loc |-> loc, p |-> p]
    /\ edits = 0
    /\ res = NoPass

DoExtract ==
    /\ log.op = "Expression"
    /\ LET r == extractWasmDwarfExpression(log.data, <<>>)
       IN  log' = [op |-> "extract", data |-> log.data, locs |-> r.locs, panic |-> r.panic]
    /\ UNCHANGED <<wf, heap, pc, mg, used, edits, res>>

DoReadLocation ==
    /\ log.op = "DebugLoc"
    /\ log' = [op |-> "ReadLocation", loc |-> log.loc, p |-> log.p,
               ld |-> ReadLocation(log.loc, log.p, 0, <<>>)]
    /\ UNCHANGED <<wf, heap, pc, mg, used, edits, res>>

NextLocation == DoExtract \/ DoReadLocation

SpecLocation == InitLocation /\ [][NextLocation]_vars

\* code entries as FindFunction can meet them: decoded from a binary
\* (PCValid, offsets of that file), decoded from text (no offsets), merged
\* from a binary-decoded donor (PCValid, offsets of the donor's file, which
\* may overlap the host's)
FindEntries ==
    {[Expression |-> <<>>, PCValid |-> v, CodeSectionPtr |-> p, CodeSectionLen |-> l] :
        v \in BOOLEAN, p \in {0, 3}, l \in {0, 3}}

FindLayouts == UNION {[1..n -> FindEntries] : n \in 0..2}

InitFind ==
    /\ \/ \E kind \in HostKinds, nImp \in 0..Len(HostImports) :
            /\ wf = HostModule(kind, nImp)
            /\ heap = HostHeap(kind, nImp)
       \/ \E code \in FindLayouts :
            /\ wf = [HostModule("self", 1) EXCEPT
                        !.Code = code,
                        !.Function = [i \in 1..Len(code) |-> [TypeIndex |-> 0]]]
            /\ heap = <<>>
    /\ mg = NoMerge(wf, heap)
    /\ pc = "idle"
    /\ used = [funcs |-> {}, data |-> {}, placed |-> EmptyMap]
    /\ log = NoLog
    /\ edits = 0
    /\ res = NoPass

FindPCs == 0..10

DoFindFunction(pcv) ==
    /\ pc = "idle"
    /\ log' = [op |-> "FindFunction", pc |-> pcv, ret |-> FindFunction(wf, pcv, 0)]
    /\ UNCHANGED <<wf, heap, pc, mg, used, edits, res>>

\* lookups by program counter, before and after merging
NextFind ==
    \/ \E pcv \in FindPCs : DoFindFunction(pcv)
    \/ AddFuncsFrom

SpecFind == InitFind /\ [][NextFind]_vars

\* name, debug and signature maps as a name section can hold them: the
\* two-entry map {3: main, 4: aux}, maps that differ in their keys, an
\* empty map
RenumberInputs ==
    <<[FunctionNames |-> (3 :> "main" @@ 4 :> "aux"),
       functionDebug |-> (3 :> "main.go:1"),
       functionSignature |-> (4 :> "aux(i32)")],
      [FunctionNames |-> (0 :> "$imp" @@ 2 :> "$f" @@ 3 :> "$g"),
       functionDebug |-> (2 :> "f.go:7" @@ 3 :> "g.go:9"),
       functionSignature |-> EmptyMap],
      [FunctionNames |-> (0 :> "$a" @@ 1 :> "$b" @@ 2 :> "$c" @@ 3 :> "$d"),
       functionDebug |-> (1 :> "b.go:2"),
       functionSignature |-> (0 :> "a()" @@ 3 :> "d()")]>>

InitRenumber ==
    /\ \E n \in DOMAIN RenumberInputs :
         LET w == [HostModule("self", 2) EXCEPT
                      !.FunctionNames = RenumberInputs[n].FunctionNames,
                      !.functionDebug = RenumberInputs[n].functionDebug,
                      !.functionSignature = RenumberInputs[n].functionSignature]
         IN  /\ wf = w
             /\ heap = HostHeap("self", 2)
             /\ mg = NoMerge(w, HostHeap("self", 2))
    /\ pc = "idle"
    /\ used = [funcs |-> {}, data |-> {}, placed |-> EmptyMap]
    /\ log = NoLog
    /\ edits = 0
    /\ res = NoPass

Injective(f) == \A a, b \in DOMAIN f : f[a] = f[b] => a = b

\* the remaps handed to Renumber_functions: every injective map on one of
\* these key sets that moves an index by at most RemapReach.  Two keys with
\* one target would leave the surviving value to the iteration order of the
\* map, so they are left out
RemapKeys == {3..4, 2..3, 0..3}

RemapReach == 0..2

Remaps ==
    {f \in UNION {[D -> 0..5] : D \in RemapKeys} :
        /\ Injective(f)
        /\ \A o \in DOMAIN f : \E d \in RemapReach : f[o] = o + d \/ f[o] = o - d}

DoRenumber(remap) ==
    /\ pc = "idle"
    /\ edits < MaxEdits
    /\ wf' = Renumber_functions(wf, remap)
    /\ edits' = edits + 1
    /\ log' = [op |-> "Renumber", remap |-> remap, before |-> wf]
    /\ UNCHANGED <<heap, pc, mg, used, res>>

NextRenumber == \E remap \in Remaps : DoRenumber(remap)

SpecRenumber == InitRenumber /\ [][NextRenumber]_vars

\* Renumber_functions called directly and by the import-insert step of a merge
NextKeep == NextRenumber \/ AddFuncsFrom

SpecKeep == Init /\ [][NextKeep]_vars

(***************************************************************************)
(* Operands that name a function, and index-space well-formedness          *)
(***************************************************************************)
NumFuncs(w) == Len(w.Import) + Len(w.Code)

CallOperands(w, h, i) ==
    UNION {{<<"code", k, p>> : p \in {p \in 1..Len(w.Code[k].Expression) :
                                        /\ h[w.Code[k].Expression[p]].Opcode = "call"
                                        /\ h[w.Code[k].Expression[p]].FuncIndex = i}} :
            k \in 1..Len(w.Code)}

ElemOperands(w, i) ==
    UNION {{<<"elem", x, q>> : q \in {q \in 1..Len(w.Elem[x].Indexes) : w.Elem[x].Indexes[q] = i}} :
            x \in 1..Len(w.Elem)}

ExportOperands(w, i) ==
    {<<"export", x, 0>> : x \in {x \in 1..Len(w.Export) :
                                   w.Export[x].Type = ExportFunc /\ w.Export[x].Index = i}}

Refs(w, h, i) == CallOperands(w, h, i) \cup ElemOperands(w, i) \cup ExportOperands(w, i)

NoDangling(w, h) ==
    /\ \A k \in 1..Len(w.Code) : \A p \in 1..Len(w.Code[k].Expression) :
          LET e == h[w.Code[k].Expression[p]]
          IN  /\ e.Opcode = "call" => e.FuncIndex \in 0..(NumFuncs(w) - 1)
              /\ e.Opcode \in {"global.get", "global.set"} =>
                    e.GlobalIndex \in 0..(Len(w.Global) - 1)
              /\ e.Opcode = "call_indirect" => e.TypeIndex \in 0..(Len(w.Type) - 1)
    /\ \A x \in 1..Len(w.Elem) : \A q \in 1..Len(w.Elem[x].Indexes) :
          w.Elem[x].Indexes[q] \in 0..(NumFuncs(w) - 1)
    /\ \A x \in 1..Len(w.Export) :
          w.Export[x].Type = ExportFunc => w.Export[x].Index \in 0..(NumFuncs(w) - 1)
    /\ \A x \in 1..Len(w.Function) : w.Function[x].TypeIndex \in 0..(Len(w.Type) - 1)
    /\ \A x \in 1..Len(w.Import) : w.Import[x].Index \in 0..(Len(w.Type) - 1)

\* C1: an import-insert step of AddFuncsFrom keeps, for every host function
\* F, exactly the operands that named F: the calls, element-table indexes
\* and function exports that had F's old index i have F's new index
\* afterwards (i below the insert position, i+1 otherwise), and no others.
C1_RefsPreserved ==
    [][(pc = "imports" /\ Len(wf'.Import) = Len(wf.Import) + 1) =>
         \A i \in 0..(NumFuncs(wf) - 1) :
            Refs(wf, heap, i) =
               Refs(wf', heap', IF i < Len(wf.Import) THEN i ELSE i + 1)]_vars

\* C3: a merge into a host without dangling references leaves a host
\* without dangling function, global or type references.
C3_NoDanglingAfterMerge ==
    (pc = "idle" /\ log.op = "AddFuncsFrom" /\ NoDangling(mg.before, mg.heapBefore))
        => NoDangling(wf, heap)

(***************************************************************************)
(* The merge just finished, its donor, and where a donor function lands    *)
(***************************************************************************)
JustMerged == pc = "idle" /\ log.op = "AddFuncsFrom"

MergedDonor == Donors[mg.src]

\* host imports with the module and name of donor import k
SameImport(w, src, k) ==
    {m \in 0..(Len(w.Import) - 1) :
        /\ w.Import[m + 1].Module = src.Import[k + 1].Module
        /\ w.Import[m + 1].Name = src.Import[k + 1].Name}

\* host index, after the merge, of the donor function with index k
HostIndexOf(k) ==
    IF k < Len(MergedDonor.Import)
    THEN Min(SameImport(wf, MergedDonor, k))
    ELSE Len(wf.Import) + Len(mg.before.Code) + (k - Len(MergedDonor.Import))

\* the step of the import loop under way inserts / reuses an import
InsertPending ==
    /\ pc = "imports" /\ mg.idx < Len(MergedDonor.Import)
    /\ SameImport(wf, MergedDonor, mg.idx) = {}

ReusePending ==
    /\ pc = "imports" /\ mg.idx < Len(MergedDonor.Import)
    /\ SameImport(wf, MergedDonor, mg.idx) # {}

\* C2: a donor import the host lacks goes to index |H.imports|, existing
\* imports keep their indexes and the defined functions, in unchanged
\* order, sit one index higher (their names follow them); and for the host with
\* imports [a,b] whose only function calls itself (index 2) and is exported
\* as 2, merging the donor with the new import c gives imports [a,b,c],
\* call operand 3 and export index 3.
C2_InsertShiftsByOne ==
    /\ [][(InsertPending /\ mg'.idx = mg.idx + 1) =>
            LET n == Len(wf.Import)
                i == MergedDonor.Import[mg.idx + 1]
            IN  /\ Len(wf'.Import) = n + 1
                /\ SubSeq(wf'.Import, 1, n) = wf.Import
                /\ wf'.Import[n + 1].Module = i.Module
                /\ wf'.Import[n + 1].Name = i.Name
                /\ wf'.Code = wf.Code
                /\ wf'.Function = wf.Function
                /\ \A f \in n..(NumFuncs(wf) - 1) :
                      f \in DOMAIN wf.FunctionNames =>
                         /\ f + 1 \in DOMAIN wf'.FunctionNames
                         /\ wf'.FunctionNames[f + 1] = wf.FunctionNames[f]]_vars
    /\ [](JustMerged /\ mg.src = "C" /\ mg.before = HostModule("self", 2) =>
            /\ [x \in 1..Len(wf.Import) |-> wf.Import[x].Name] = <<"a", "b", "c">>
            /\ heap[wf.Code[1].Expression[1]].Opcode = "call"
            /\ heap[wf.Code[1].Expression[1]].FuncIndex = 3
            /\ wf.Export[1].Index = 3)

C2_Witness ==
    /\ JustMerged /\ mg.src = "C" /\ mg.before = HostModule("self", 2)
    /\ Len(wf.Import) = 3
    /\ heap[wf.Code[1].Expression[1]].FuncIndex = 3

\* C4: after a merge the j-th donor function is host function
\* |imports after| + |code before| + j, its type and body at the
\* matching places of the function and code vectors, and every call
\* of the merged donor code that named donor function k names k's host index.
C4_DonorFunctionsPlaced ==
    JustMerged =>
       LET src == MergedDonor
           nCb == Len(mg.before.Code)
       IN  /\ Len(wf.Code) = nCb + Len(src.Code)
           /\ Len(wf.Function) = Len(mg.before.Function) + Len(src.Function)
           /\ \A j \in 0..(Len(src.Code) - 1) :
                 LET body == wf.Code[nCb + j + 1].Expression
                     dbody == src.Code[j + 1].Expression
                 IN  /\ Equals(wf.Type[wf.Function[nCb + j + 1].TypeIndex + 1],
                               src.Type[src.Function[j + 1].TypeIndex + 1])
                     /\ Len(body) = Len(dbody)
                     /\ \A p \in 1..Len(dbody) :
                           /\ heap[body[p]].Opcode = dbody[p].Opcode
                           /\ (dbody[p].Opcode = "call" /\ ~dbody[p].FunctionNeedsLinking) =>
                                 heap[body[p]].FuncIndex = HostIndexOf(dbody[p].FuncIndex)

\* a merge whose donor calls itself, an import and its other function
C4_Witness ==
    /\ JustMerged /\ mg.src = "AD" /\ Len(mg.before.Import) = 2
    /\ heap[wf.Code[Len(mg.before.Code) + 1].Expression[2]].FuncIndex =
          Len(wf.Import) + Len(mg.before.Code) + 1
    /\ heap[wf.Code[Len(mg.before.Code) + 2].Expression[4]].FuncIndex = Len(wf.Import) - 1

\* C5: a donor import the host already has adds nothing: that step leaves
\* the host (imports, exports, element tables, name and debug maps) and
\* every instruction as they are and records the existing index for the
\* donor's import; after the merge the donor's calls to it carry the index
\* the import had in the host before the merge.
C5_ImportReused ==
    /\ [][(ReusePending /\ mg' # mg) =>
            /\ wf' = wf
            /\ heap' = heap
            /\ mg'.idx = mg.idx + 1
            /\ mg.idx \in DOMAIN mg'.callModification
            /\ mg'.callModification[mg.idx] \in SameImport(wf, MergedDonor, mg.idx)
            /\ \A k \in DOMAIN mg.callModification :
                  /\ k \in DOMAIN mg'.callModification
                  /\ k # mg.idx => mg'.callModification[k] = mg.callModification[k]]_vars
    /\ [](JustMerged =>
            LET src == MergedDonor
                nCb == Len(mg.before.Code)
            IN  \A j \in 0..(Len(src.Code) - 1) :
                   \A p \in 1..Len(src.Code[j + 1].Expression) :
                      LET d == src.Code[j + 1].Expression[p]
                      IN  (/\ d.Opcode = "call" /\ ~d.FunctionNeedsLinking
                           /\ d.FuncIndex < Len(src.Import)
                           /\ SameImport(mg.before, src, d.FuncIndex) # {}) =>
                             /\ heap[wf.Code[nCb + j + 1].Expression[p]].FuncIndex
                                   = Min(SameImport(mg.before, src, d.FuncIndex))
                             /\ wf.Import[heap[wf.Code[nCb + j + 1].Expression[p]].FuncIndex + 1]
                                   = mg.before.Import[Min(SameImport(mg.before, src, d.FuncIndex)) + 1])

\* the donor's import a/a was found in the host and its call rewritten
C5_Witness ==
    /\ JustMerged /\ mg.src = "AD"
    /\ SameImport(mg.before, MergedDonor, 0) = {0}
    /\ Len(wf.Import) < Len(mg.before.Import) + Len(MergedDonor.Import)
    /\ heap[wf.Code[Len(mg.before.Code) + 1].Expression[1]].FuncIndex = 0

\* C6: a merge appends the donor globals in donor order, so donor global g
\* is host global |globals before| + g: the global.get / global.set of the
\* merged donor code that named g name that index, g's name is copied
\* under it, and the host's own code keeps its global operands.
C6_GlobalsAppended ==
    JustMerged =>
       LET src == MergedDonor
           nGb == Len(mg.before.Global)
           nCb == Len(mg.before.Code)
       IN  /\ wf.Global = mg.before.Global \o src.Global
           /\ \A g \in 0..(Len(src.Global) - 1) :
                 g \in DOMAIN src.globalNames =>
                    /\ nGb + g \in DOMAIN wf.globalNames
                    /\ wf.globalNames[nGb + g] = src.globalNames[g]
           /\ \A g \in DOMAIN mg.before.globalNames :
                 /\ g \in DOMAIN wf.globalNames
                 /\ wf.globalNames[g] = mg.before.globalNames[g]
           /\ \A j \in 0..(Len(src.Code) - 1) :
                 \A p \in 1..Len(src.Code[j + 1].Expression) :
                    LET d == src.Code[j + 1].Expression[p]
                    IN  (d.Opcode \in {"global.get", "global.set"} /\ ~d.GlobalNeedsLinking) =>
                           heap[wf.Code[nCb + j + 1].Expression[p]].GlobalIndex
                              = nGb + d.GlobalIndex
           /\ \A k \in 1..nCb :
                 /\ wf.Code[k] = mg.before.Code[k]
                 /\ \A p \in 1..Len(wf.Code[k].Expression) :
                       heap[wf.Code[k].Expression[p]].GlobalIndex
                          = mg.heapBefore[wf.Code[k].Expression[p]].GlobalIndex

\* the donor's global.set of its global 1 names host global 4, under the
\* donor's name, next to host code that reads global 0
C6_Witness ==
    /\ JustMerged /\ mg.src = "AD" /\ Len(mg.before.Global) = 3
    /\ mg.before = HostModule("two", 1)
    /\ heap[wf.Code[4].Expression[2]].Opcode = "global.set"
    /\ heap[wf.Code[4].Expression[2]].GlobalIndex = 4
    /\ wf.globalNames[4] = "$dbg"
    /\ heap[wf.Code[1].Expression[2]].GlobalIndex = 0

(***************************************************************************)
(* Data placement and relocation                                           *)
(***************************************************************************)
AnyFlag(e) ==
    \/ e.FunctionNeedsLinking \/ e.GlobalNeedsLinking
    \/ e.DataOffsetNeedsLinking \/ e.DataLengthNeedsLinking

\* the text of an instruction without its comment
Text(e) == StripComment(EncodeWat(e, wf))

BaseSnippet == <<(<<"global.get", "$base">>), (<<"i32.add">>)>>

\* C7: once AddDataFrom has put the segment named $D at address A, a
\* ResolveRelocations(base) that returns no error on every code entry
\* leaves A - base in every i32.const offset($D); the first segment added
\* at 65536 has the offset i32.const 65536, its relocation against base
\* 65536 is i32.const 0, and InsertAfterRelocating of "global.get $base /
\* i32.add" then yields i32.const 0 ; global.get $base ; i32.add.
C7_RelocationValue ==
    /\ (log.op = "Resolve" /\ log.kind = "relocations" /\ log.err = "nil") =>
          \A k \in 1..Len(wf.Code) : \A p \in 1..Len(wf.Code[k].Expression) :
             LET e == heap[wf.Code[k].Expression[p]]
             IN  (e.DataOffsetNeedsLinking /\ e.I32DataId \in DOMAIN used.placed) =>
                    /\ e.Opcode = "i32.const"
                    /\ e.I32Value = WrapI32(used.placed[e.I32DataId] - log.base)
                    /\ (used.placed[e.I32DataId] = 65536 /\ log.base = 65536) => e.I32Value = 0
    /\ (log.op = "AddDataFrom" /\ log.addr = 65536 /\ Donors[log.src].Data # <<>>) =>
          LET seg == wf.Data[Len(log.before) + 1]
          IN  /\ Len(seg.Offset) = 1
              /\ seg.Offset[1].Opcode = "i32.const"
              /\ seg.Offset[1].I32Value = 65536
              /\ seg.Data = Donors[log.src].Data[1].Data
    /\ (/\ log.op = "InsertAfterRelocating" /\ log.err = "nil" /\ log.to = BaseSnippet
        /\ log.res = [n |-> Len(ResolveKinds), base |-> 65536]
        /\ \E g \in DOMAIN wf.globalNames : wf.globalNames[g] = "$base") =>
          LET old == log.body
              new == wf.Code[log.k].Expression
              flagged(q) == heap[old[q]].DataOffsetNeedsLinking
              pos(q) == q + 2 * Cardinality({r \in 1..(q - 1) : flagged(r)})
          IN  \A q \in 1..Len(old) :
                 (/\ flagged(q)
                  /\ heap[old[q]].I32DataId \in DOMAIN used.placed
                  /\ used.placed[heap[old[q]].I32DataId] = 65536) =>
                    /\ Text(heap[new[pos(q)]]) = <<"i32.const", "0">>
                    /\ Text(heap[new[pos(q) + 1]]) = <<"global.get", "$base">>
                    /\ Text(heap[new[pos(q) + 2]]) = <<"i32.add">>

\* the donor's "hello" segment placed at 65536, its reference resolved
\* against 65536 and the fixup inserted after it
C7_Witness ==
    /\ log.op = "InsertAfterRelocating" /\ log.err = "nil" /\ log.to = BaseSnippet
    /\ log.res = [n |-> Len(ResolveKinds), base |-> 65536]
    /\ Len(log.body) = 1
    /\ heap[log.body[1]].DataOffsetNeedsLinking
    /\ heap[log.body[1]].I32DataId = "$D0"
    /\ "$D0" \in DOMAIN used.placed
    /\ used.placed["$D0"] = 65536
    /\ Len(wf.Code[log.k].Expression) = 3
    /\ Text(heap[wf.Code[log.k].Expression[2]]) = <<"global.get", "$base">>

\* the segments the last AddDataFrom appended: offset value and end
AddedOff(x) == wf.Data[Len(log.before) + x].Offset[1].I32Value

AddedEnd(x) == AddedOff(x) + Len(wf.Data[Len(log.before) + x].Data)

\* AddDataFrom's postcondition as the specification words it
DataLaidOut ==
    LET src == Donors[log.src]
        n0 == Len(log.before)
        n == Len(src.Data)
    IN  /\ Len(wf.Data) = n0 + n
        /\ SubSeq(wf.Data, 1, n0) = log.before
        /\ \A x \in 1..n :
              /\ wf.Data[n0 + x].Data = src.Data[x].Data
              /\ Len(wf.Data[n0 + x].Offset) = 1
              /\ wf.Data[n0 + x].Offset[1].Opcode = "i32.const"
              /\ AddedOff(x) % 8 = 0
        /\ n > 0 => AddedOff(1) = log.addr
        /\ \A x \in 1..n : \A y \in (x + 1)..n : AddedEnd(x) <= AddedOff(y)
        /\ n > 0 => /\ log.ret % 8 = 0
                    /\ log.ret >= AddedEnd(n)
                    /\ log.ret - AddedEnd(n) < 8

\* where the donor's data ends when laid out from ptr without wrap-around
RECURSIVE LayoutEnd(_, _, _)
LayoutEnd(src, idx, ptr) ==
    IF idx >= Len(src.Data) THEN ptr
    ELSE LayoutEnd(src, idx + 1, 8 * ((ptr + Len(src.Data[idx + 1].Data) + 7) \div 8))

\* C8 as stated: for every base_ptr and donor, AddDataFrom appends the
\* donor's segments in order, the first at base_ptr, each offset a single
\* i32.const that is a multiple of 8, the byte ranges increasing and
\* disjoint, and returns the first 8-aligned address at or after the end.
C8_AsStated == log.op = "AddDataFrom" => DataLaidOut

\* C8, amended: the same, for a base_ptr that is a multiple of 8 and a
\* layout that ends within the int32 range.
C8_Amended ==
    (/\ log.op = "AddDataFrom"
     /\ log.addr % 8 = 0
     /\ LayoutEnd(Donors[log.src], 0, log.addr) <= MaxI32) => DataLaidOut

\* two segments of 5 and 3 bytes laid out from 65536
C8_Witness ==
    /\ log.op = "AddDataFrom" /\ log.src = "AD" /\ log.addr = 65536
    /\ AddedOff(2) = 65544
    /\ log.ret = 65552

\* C9: encoding an instruction that still has a needs_linking flag set
\* returns an error and writes nothing.
C9_EncoderRefusesFlagged ==
    (log.op = "EncodeBinary" /\ AnyFlag(log.e)) => (log.err # "nil" /\ log.bytes = <<>>)

\* C10: when the four resolutions have returned without error on every
\* code entry, no instruction of the module has a needs_linking flag set.
C10_FlagsClearedAfterResolve ==
    res.n = Len(ResolveKinds) =>
       \A k \in 1..Len(wf.Code) : \A p \in 1..Len(wf.Code[k].Expression) :
          ~AnyFlag(heap[wf.Code[k].Expression[p]])

(***************************************************************************)
(* Resolution of one code entry: what it was asked to resolve              *)
(***************************************************************************)
Flagged(kind, e) ==
    CASE kind = "globals" -> e.GlobalNeedsLinking
      [] kind = "functions" -> e.FunctionNeedsLinking
      [] kind = "lengths" -> e.DataLengthNeedsLinking
      [] kind = "relocations" -> e.DataOffsetNeedsLinking

SymId(kind, e) ==
    CASE kind = "globals" -> e.GlobalId
      [] kind = "functions" -> e.FunctionId
      [] OTHER -> e.I32DataId

Found(kind, id) ==
    CASE kind = "globals" -> LookupGlobalID(wf, id) # -1
      [] kind = "functions" -> LookupFunctionID(wf, id) # -1
      [] OTHER -> LookupDataId(wf, id) # -1

\* the error that names identifier id
NotFoundError(kind, id) ==
    CASE kind = "globals" -> "Global target not found (" \o id \o ")"
      [] kind = "functions" -> "Function target not found (" \o id \o ")"
      [] OTHER -> "Data not found " \o id

\* the body the last ResolveEntry worked on, as it found it
ResolvedBody == wf.Code[log.k].Expression

Was(p) == log.before[ResolvedBody[p]]

\* positions of the flagged instructions whose identifier is not found
Unfound == {p \in 1..Len(ResolvedBody) :
               Flagged(log.kind, Was(p)) /\ ~Found(log.kind, SymId(log.kind, Was(p)))}

SingleConst(expr) == Len(expr) = 1 /\ expr[1].Opcode = "i32.const"

\* positions whose data segment is found but has no single i32.const offset
NonConst == {p \in 1..Len(ResolvedBody) :
                /\ Was(p).DataOffsetNeedsLinking
                /\ Found("relocations", Was(p).I32DataId)
                /\ ~SingleConst(wf.Data[LookupDataId(wf, Was(p).I32DataId) + 1].Offset)}

\* C11 as stated: each Resolve operation returns an error naming an
\* unresolved identifier exactly when the entry has a flagged instruction
\* whose identifier is not found, and returns no error when all are found
\* (ResolveRelocations: and the data offsets are single i32.const).
C11_AsStated ==
    log.op = "ResolveEntry" =>
       /\ (\E p \in 1..Len(ResolvedBody) :
              /\ Flagged(log.kind, Was(p))
              /\ log.err = NotFoundError(log.kind, SymId(log.kind, Was(p))))
          <=> Unfound # {}
       /\ (Unfound = {} /\ (log.kind = "relocations" => NonConst = {})) => log.err = "nil"

\* C11, amended: the same for ResolveGlobals, ResolveFunctions and
\* ResolveLengths, and for ResolveRelocations on an entry whose found data
\* offsets are all single i32.const; the identifier named is the first one
\* not found.
C11_Amended ==
    (log.op = "ResolveEntry" /\ (log.kind = "relocations" => NonConst = {})) =>
       /\ log.err # "nil" <=> Unfound # {}
       /\ Unfound # {} =>
             log.err = NotFoundError(log.kind, SymId(log.kind, Was(Min(Unfound))))
       /\ Unfound = {} => log.err = "nil"

\* ResolveFunctions stopped at the second of three symbolic calls
C11_Witness ==
    /\ log.op = "ResolveEntry" /\ log.kind = "functions"
    /\ Cardinality(Unfound) = 2
    /\ Found("functions", Was(1).FunctionId) /\ Was(1).FunctionNeedsLinking
    /\ log.err = "Function target not found ($nofn)"

C13_AddTypeMaybeIdempotent ==
    [][(/\ log.op = "AddTypeMaybe" /\ log'.op = "AddTypeMaybe"
        /\ log'.nth # log.nth
        /\ Equals(log.te, log'.te)) =>
          /\ log'.idx = log.idx
          /\ wf'.Type = wf.Type
          /\ log'.before = wf.Type
          /\ Len(wf'.Type) <= Len(log.before) + 1
          /\ Equals(wf'.Type[log'.idx + 1], log'.te)]_vars

\* the second call of a pair whose first call added the entry at index 2
C13_Witness ==
    /\ log.op = "AddTypeMaybe" /\ log.nth = 2
    /\ log.te = TypeIL /\ log.idx = 2
    /\ log.before = wf.Type
    /\ Len(wf.Type) = 3

PairwiseDistinct(Type) ==
    \A x \in 1..Len(Type) : \A y \in 1..Len(Type) : x # y => ~Equals(Type[x], Type[y])

\* C14: from a type vector without structurally equal entries, AddTypeMaybe
\* calls, direct or inside AddFuncsFrom, keep the entries pairwise distinct
\* and leave every entry that was there at its index.
C14_TypesStayDistinct ==
    /\ [](PairwiseDistinct(wf.Type))
    /\ [][/\ Len(wf'.Type) >= Len(wf.Type)
          /\ SubSeq(wf'.Type, 1, Len(wf.Type)) = wf.Type]_vars

\* a merge interned donor types after direct calls had added others
C14_Witness ==
    /\ JustMerged /\ mg.src = "AD"
    /\ Len(mg.before.Type) = 4
    /\ TypeII \notin Range(mg.before.Type)
    /\ Len(wf.Type) = 5
    /\ wf.Type[5] = TypeII
    /\ SubSeq(wf.Type, 1, 4) = mg.before.Type

(***************************************************************************)
(* Renumber_functions                                                      *)
(***************************************************************************)
\* entry o of map `b` sits at remap[o] in map `a`, and `a` holds nothing else
Moved(b, a, remap) ==
    /\ DOMAIN a = {remap[o] : o \in DOMAIN b}
    /\ \A o \in DOMAIN b : a[remap[o]] = b[o]

Covers(remap, w) ==
    (DOMAIN w.FunctionNames) \cup (DOMAIN w.functionDebug)
        \cup (DOMAIN w.functionSignature) \subseteq DOMAIN remap

\* C15: Renumber_functions with an injective remap whose keys include every
\* index present moves each entry of FunctionNames, functionDebug and
\* functionSignature from o to remap[o] with its value unchanged, and leaves
\* no entry at an old index that is not also a new one; {3: main, 4: aux}
\* under {3: 4, 4: 5} becomes {4: main, 5: aux}
C15_RenumberMoves ==
    (log.op = "Renumber" /\ Injective(log.remap) /\ Covers(log.remap, log.before)) =>
        /\ Moved(log.before.FunctionNames, wf.FunctionNames, log.remap)
        /\ Moved(log.before.functionDebug, wf.functionDebug, log.remap)
        /\ Moved(log.before.functionSignature, wf.functionSignature, log.remap)
        /\ (/\ log.before.FunctionNames = (3 :> "main" @@ 4 :> "aux")
            /\ log.remap = (3 :> 4 @@ 4 :> 5))
              => wf.FunctionNames = (4 :> "main" @@ 5 :> "aux")

\* the two-entry example: index 4 is an old index and a new one, index 3 is
\* only an old one
C15_Witness ==
    /\ log.op = "Renumber"
    /\ log.before.FunctionNames = (3 :> "main" @@ 4 :> "aux")
    /\ log.remap = (3 :> 4 @@ 4 :> 5)
    /\ wf.FunctionNames = (4 :> "main" @@ 5 :> "aux")
    /\ 3 \notin DOMAIN wf.functionDebug

(***************************************************************************)
(* ReplaceInstr                                                            *)
(***************************************************************************)
\* the instructions a body points to
Vals(body) == [i \in 1..Len(body) |-> heap[body[i]]]

\* the instruction at address a reads as the `from` of the last ReplaceInstr
Matches(a) == StripComment(EncodeWat(heap[a], wf)) = log.from

ParsedTo == ExpressionFromWat(log.to, wf, <<>>).newex

\* each matching instruction of the body gives way to the parsed sequence
RECURSIVE Substituted(_)
Substituted(body) ==
    IF body = <<>> THEN <<>>
    ELSE (IF Matches(Head(body)) THEN ParsedTo ELSE <<heap[Head(body)]>>)
         \o Substituted(Tail(body))

\* C16: ReplaceInstr(from, to) replaces every instruction whose text, comment
\* stripped, equals `from` by the whole sequence parsed from `to`; every other
\* instruction stays, in its original relative order; a body of n
\* instructions with k matches has n - k + k*|to| instructions afterwards
C16_ReplaceInstr ==
    (log.op = "ReplaceInstr" /\ log.err = "nil") =>
        LET old == log.body
            new == wf.Code[log.k].Expression
            k == Cardinality({i \in 1..Len(old) : Matches(old[i])})
        IN  /\ Vals(new) = Substituted(old)
            /\ SelectSeq(new, LAMBDA a : a \in Range(old))
                 = SelectSeq(old, LAMBDA a : ~Matches(a))
            /\ Len(new) = Len(old) - k + k * Len(ParsedTo)

\* two matches, one of them printed with a source-line comment, replaced by a
\* two-instruction sequence parsed from three lines
C16_Witness ==
    /\ log.op = "ReplaceInstr" /\ log.err = "nil"
    /\ Len(log.body) = 3
    /\ Cardinality({i \in 1..3 : Matches(log.body[i])}) = 2
    /\ \E i \in 1..3 : /\ Matches(log.body[i])
                       /\ EncodeWat(heap[log.body[i]], wf) # log.from
    /\ Len(log.to) = 3 /\ Len(ParsedTo) = 2
    /\ Len(wf.Code[log.k].Expression) = 5

(***************************************************************************)
(* InsertAfterRelocating                                                   *)
(***************************************************************************)
\* each flagged instruction of the body is followed by the parsed snippet
RECURSIVE Spliced(_)
Spliced(body) ==
    IF body = <<>> THEN <<>>
    ELSE (IF heap[Head(body)].DataOffsetNeedsLinking
          THEN <<heap[Head(body)]>> \o ParsedTo ELSE <<heap[Head(body)]>>)
         \o Spliced(Tail(body))

FlaggedAt(body) == {i \in 1..Len(body) : heap[body[i]].DataOffsetNeedsLinking}

\* C17: InsertAfterRelocating inserts the parsed snippet immediately after
\* every instruction whose data_offset_needs_linking flag is set and nowhere
\* else; the original instructions keep their relative order, and a body
\* with no flagged instruction is unchanged
C17_InsertAfterRelocating ==
    (log.op = "InsertAfterRelocating" /\ log.err = "nil") =>
        LET old == log.body
            new == wf.Code[log.k].Expression
        IN  /\ Vals(new) = Spliced(old)
            /\ SelectSeq(new, LAMBDA a : a \in Range(old)) = old
            /\ Len(new) = Len(old) + Cardinality(FlaggedAt(old)) * Len(ParsedTo)
            /\ FlaggedAt(old) = {} => new = old

\* a body with two flagged instructions, one in the middle and one at the
\* end, each now followed by the two instructions of the snippet
C17_Witness ==
    /\ log.op = "InsertAfterRelocating" /\ log.err = "nil"
    /\ Len(ParsedTo) = 2
    /\ Cardinality(FlaggedAt(log.body)) = 2
    /\ Len(log.body) \in FlaggedAt(log.body)
    /\ \E i \in 2..(Len(log.body) - 1) : i \in FlaggedAt(log.body)
    /\ Len(wf.Code[log.k].Expression) = Len(log.body) + 4

\* a body without flagged instructions went through InsertAfterRelocating
C17_WitnessUnchanged ==
    /\ log.op = "InsertAfterRelocating" /\ log.err = "nil"
    /\ FlaggedAt(log.body) = {}
    /\ Len(log.body) > 0

(***************************************************************************)
(* FindFunction                                                            *)
(***************************************************************************)
\* positions (from 0) of the code entries whose interval is valid and
\* contains pcv
Containing(pcv) ==
    {i \in 0..(Len(wf.Code) - 1) :
        /\ wf.Code[i + 1].PCValid
        /\ wf.Code[i + 1].CodeSectionPtr <= pcv
        /\ pcv <= wf.Code[i + 1].CodeSectionPtr + wf.Code[i + 1].CodeSectionLen}

\* C18: FindFunction(pc) returns |imports| + i for the first code entry i
\* whose PCValid flag is true and whose closed interval
\* [CodeSectionPtr, CodeSectionPtr + CodeSectionLen] contains pc, and -1 when
\* there is none; an entry with PCValid false is never returned
C18_FindFunction ==
    log.op = "FindFunction" =>
        /\ Containing(log.pc) = {} => log.ret = -1
        /\ Containing(log.pc) # {} => log.ret = Len(wf.Import) + Min(Containing(log.pc))
        /\ \A i \in 0..(Len(wf.Code) - 1) :
              ~wf.Code[i + 1].PCValid => log.ret # Len(wf.Import) + i

\* the pc is the upper end of the interval of a decoded entry, and a merged
\* entry without valid offsets lies behind it
C18_Witness ==
    /\ log.op = "FindFunction"
    /\ log.ret = Len(wf.Import)
    /\ log.pc = wf.Code[1].CodeSectionPtr + wf.Code[1].CodeSectionLen
    /\ wf.Code[1].CodeSectionLen > 0
    /\ \E i \in 2..Len(wf.Code) : ~wf.Code[i].PCValid
    /\ pc = "idle" /\ mg.src # "none"

\* two valid entries contain the pc and the first of them is returned
C18_WitnessFirst ==
    /\ log.op = "FindFunction"
    /\ Cardinality(Containing(log.pc)) = 2
    /\ log.ret = Len(wf.Import) + Min(Containing(log.pc))

\* pc 0 lies in the interval [0, 0] of a merged entry that is not PCValid
C18_WitnessInvalid ==
    /\ log.op = "FindFunction"
    /\ log.pc = 0 /\ log.ret = -1
    /\ \E i \in 1..Len(wf.Code) :
          ~wf.Code[i].PCValid /\ wf.Code[i].CodeSectionPtr = 0

(***************************************************************************)
(* DWARF local names                                                       *)
(***************************************************************************)
\* the ranges the debug information declares: variable `name` lives in local
\* `index` for low <= pc < high
RECURSIVE DeclaredIn(_, _, _)
DeclaredIn(locdata, child, acc) ==
    IF locdata = <<>> THEN acc
    ELSE LET ld == Head(locdata)
             locs == extractWasmDwarfExpression(ld.expression, <<>>).locs
         IN  DeclaredIn(Tail(locdata), child,
                 acc \cup {[tag |-> child.tag, name |-> child.vname,
                            low |-> ld.startAddress, high |-> ld.endAddress,
                            index |-> locs[n].index] :
                              n \in {m \in 1..Len(locs) : locs[m].isLocal}})

Declared(dw) ==
    UNION {UNION {IF e.children[c].vloc = -1 THEN {}
                  ELSE DeclaredIn(ReadLocation(dw.loc, e.children[c].vloc, 0, <<>>),
                                  e.children[c], {}) :
                    c \in DOMAIN e.children} :
             e \in Range(dw.entries)}

\* C19: for a formal parameter x whose location list maps [low, high) to
\* local i, after ParseDwarfVariables GetLocalVarName(pc, i) returns x for
\* every pc with low <= pc < high, and the empty string for every pc outside
\* [low, high) that no other record covers
C19_LocalVarName ==
    log.op = "GetLocalVarName" =>
        \A r \in Declared(log.dw) :
            (r.tag = "FormalParameter" /\ r.index = log.index) =>
                /\ (r.low <= log.pc /\ log.pc < r.high) => log.ret = r.name
                /\ (/\ ~(r.low <= log.pc /\ log.pc < r.high)
                    /\ \A o \in Declared(log.dw) \ {r} :
                          ~(o.index = log.index /\ o.low <= log.pc /\ log.pc <= o.high))
                      => log.ret = ""

(***************************************************************************)
(* Round trip of the binary encoding                                       *)
(***************************************************************************)
\* C20 as stated: for every binary B the decoder accepts, encoding the
\* decoded instructions without any edit gives back exactly B
C20_AsStated ==
    log.op = "EncodeInstructions" => (log.err = "nil" /\ log.bytes = log.B)

\* C20 amended: when every number of B is in its shortest LEB128 form and
\* every reserved byte of B is 0, encoding the decoded instructions gives
\* back exactly B
C20_Amended ==
    (log.op = "EncodeInstructions" /\ log.short) =>
        (log.err = "nil" /\ log.bytes = log.B)

\* a br_table with no labels and only a default, followed by end
C20_Witness ==
    /\ log.op = "EncodeInstructions" /\ log.short
    /\ log.B = <<14, 0, 0, 11>>
    /\ Len(log.code) = 2
    /\ log.code[1].Opcode = "br_table" /\ log.code[1].Labels = <<>>
    /\ log.bytes = log.B

\* i32.const -1
C20_WitnessConst ==
    /\ log.op = "EncodeInstructions" /\ log.short
    /\ log.B = <<65, 127>>
    /\ log.code[1].I32Value = -1
    /\ log.bytes = log.B

\* memory.copy with its two reserved bytes, memory.size with its one
C20_WitnessReserved ==
    /\ log.op = "EncodeInstructions" /\ log.short
    /\ log.B \in {<<252, 10, 0, 0>>, <<63, 0>>}
    /\ log.bytes = log.B

(***************************************************************************)
(* C21 - malformed location expressions                                    *)
(***************************************************************************)

\* C21: on every byte sequence passed as a location expression, also one
\* cut off right after the 0xED opcode, after its kind byte or inside the
\* operand of DW_OP_piece, extractWasmDwarfExpression returns the list
\* collected so far and does not abort.
C21_ExtractReturns ==
    log.op = "extract" => ~log.panic

\* the three truncations the claim names; the last two do return
C21_TruncatedAfterOpcode ==
    /\ log.op = "extract"
    /\ log.data = <<DW_OP_stack_value, DW_OP_WASM_location>>
    /\ log.panic

C21_TruncatedReturns ==
    /\ log.op = "extract"
    /\ log.data \in {<<DW_OP_WASM_location, DW_Location_Local>>, <<DW_OP_piece, 128>>}
    /\ ~log.panic

(***************************************************************************)
(* C22 - decoding of location expressions                                  *)
(***************************************************************************)

\* the unsigned LEB number at the head of d: the position of its last byte
\* (0 when d ends inside it) and its value
LebEnd(d) ==
    IF \E i \in DOMAIN d : d[i] < 128
    THEN CHOOSE i \in DOMAIN d : d[i] < 128 /\ \A j \in 1..(i - 1) : d[j] >= 128
    ELSE 0

RECURSIVE LebSum(_, _)
LebSum(d, i) ==
    IF i = 0 THEN 0 ELSE (d[i] % 128) * Pow2(7 * (i - 1)) + LebSum(d, i - 1)

Drop(d, n) == SubSeq(d, n + 1, Len(d))

LocsOf(d) == extractWasmDwarfExpression(d, <<>>).locs

\* C22: an expression on which the walk returns is decoded from the left:
\* DW_OP_stack_value and DW_OP_piece with its LEB operand yield nothing,
\* 0xED with kind k and a whole operand (four little-endian bytes for k = 3,
\* an unsigned LEB otherwise) yields one location of that index, local iff
\* k = 0, global iff k is 1 or 3, stack iff k = 2, followed by what the rest
\* yields, and any other opcode ends the list.
C22_ExtractDecodes ==
    (log.op = "extract" /\ ~log.panic) =>
        LET d == log.data
            op == Head(d)
            k == d[2]
            opd == Drop(d, 2)
            one(index) == <<[isLocal |-> k = 0, isGlobal |-> k \in {1, 3},
                             isStack |-> k = 2, index |-> index]>>
        IN  IF d = <<>> THEN log.locs = <<>>
            ELSE IF op = DW_OP_stack_value THEN log.locs = LocsOf(Tail(d))
            ELSE IF op = DW_OP_piece
            THEN LebEnd(Tail(d)) # 0 => log.locs = LocsOf(Drop(d, 1 + LebEnd(Tail(d))))
            ELSE IF op = DW_OP_WASM_location
            THEN IF k = 3
                 THEN log.locs = one(U32(opd[1] + 256 * opd[2] + 65536 * opd[3]
                                         + 16777216 * opd[4]))
                                 \o LocsOf(Drop(opd, 4))
                 ELSE LebEnd(opd) # 0 =>
                          log.locs = one(LebSum(opd, LebEnd(opd))) \o LocsOf(Drop(opd, LebEnd(opd)))
            ELSE log.locs = <<>>

\* a piece, a stack location with a two-byte index, then a fixed-width global
C22_Witness ==
    /\ log.op = "extract"
    /\ ~log.panic
    /\ log.data = <<DW_OP_WASM_location, DW_Location_Stack, 128>>
                  \o <<0, DW_OP_WASM_location, DW_Location_Global_i32, 2, 1, 0, 0,
                       DW_OP_stack_value>>
    /\ Len(log.locs) = 2
    /\ log.locs[2].isGlobal /\ log.locs[2].index = 258

(***************************************************************************)
(* C23 - location lists                                                    *)
(***************************************************************************)

EndPair(e) == e.low = 0 /\ e.high = 0

\* C23: ReadLocation(p) returns, in order, one record for every entry from p
\* up to the first (0, 0) pair whose low word is not the base address
\* selection value, with start = base + low and end = base + high in 32-bit
\* arithmetic and the entry's expression, where base is 0 until an entry
\* with that low word sets it to its high word.
C23_ReadLocation ==
    log.op = "ReadLocation" =>
        LET loc == log.loc
            stop == CHOOSE t \in log.p..Len(loc) :
                        EndPair(loc[t]) /\ \A j \in log.p..(t - 1) : ~EndPair(loc[j])
            sel(i) == {j \in log.p..(i - 1) : loc[j].low = BaseAddressSelection}
            base(i) == IF sel(i) = {} THEN 0
                       ELSE loc[CHOOSE j \in sel(i) : \A j2 \in sel(i) : j2 <= j].high
            kept == {i \in log.p..(stop - 1) : loc[i].low # BaseAddressSelection}
            nth(n) == CHOOSE i \in kept : Cardinality({j \in kept : j <= i}) = n
        IN  /\ Len(log.ld) = Cardinality(kept)
            /\ \A n \in DOMAIN log.ld :
                  log.ld[n] = [startAddress |-> (base(nth(n)) + loc[nth(n)].low) % Pow2(U32Bits),
                               endAddress |-> (base(nth(n)) + loc[nth(n)].high) % Pow2(U32Bits),
                               expression |-> loc[nth(n)].expr]

\* a range, a base address selection of all ones, then a range that wraps
C23_Witness ==
    /\ log.op = "ReadLocation"
    /\ log.p = 1
    /\ Len(log.loc) = 4
    /\ log.loc[2] = LocEntry(BaseAddressSelection, BaseAddressSelection, <<>>)
    /\ Len(log.ld) = 2
    /\ log.ld[1].startAddress = 1 /\ log.ld[1].endAddress = 2
    /\ log.ld[2].startAddress = 0 /\ log.ld[2].endAddress = 1

(***************************************************************************)
(* C24 - the remap callback of a merge                                     *)
(***************************************************************************)

ReusedImports == {k \in 0..(Len(MergedDonor.Import) - 1) : SameImport(mg.before, MergedDonor, k) # {}}

\* the donor instruction at position q of body j, and what the merge made of it
DonorInstr(j, q) == MergedDonor.Code[j].Expression[q]
MergedInstr(j, q) == heap[wf.Code[Len(mg.before.Code) + j].Expression[q]]

\* C25: in merged donor code an instruction flagged function_needs_linking
\* whose symbolic id is the donor's identifier of an import reused from the
\* host carries the host's identifier of that import; when that identifier
\* is numeric the flag is cleared and the function operand is that number;
\* a flagged instruction whose id has no entry in the rename table keeps
\* its flag and its id.
C25_UnresolvedCalls ==
    JustMerged =>
        \A j \in DOMAIN MergedDonor.Code : \A q \in DOMAIN MergedDonor.Code[j].Expression :
            LET e == DonorInstr(j, q)
                r == MergedInstr(j, q)
            IN  e.FunctionNeedsLinking =>
                  /\ \A k \in ReusedImports :
                        LET m == Min(SameImport(mg.before, MergedDonor, k))
                        IN  e.FunctionId = GetFunctionIdentifier(MergedDonor.FunctionNames, k, FALSE) =>
                              IF m \in DOMAIN mg.before.FunctionNames
                              THEN /\ r.FunctionId = mg.before.FunctionNames[m]
                                   /\ r.FunctionNeedsLinking
                              ELSE /\ r.FunctionId = ToString(m)
                                   /\ ~r.FunctionNeedsLinking
                                   /\ r.FuncIndex = m
                  /\ e.FunctionId \notin DOMAIN mg.importFuncModifications =>
                        r.FunctionNeedsLinking /\ r.FunctionId = e.FunctionId

\* donor AD on a host that imports a without a name: call $imp_a became call 0
C25_Witness ==
    /\ JustMerged /\ mg.src = "AD"
    /\ DonorInstr(2, 6).FunctionId = "$imp_a"
    /\ 0 \in ReusedImports
    /\ ~MergedInstr(2, 6).FunctionNeedsLinking
    /\ MergedInstr(2, 6).FuncIndex = 0
    /\ MergedInstr(2, 1).FunctionNeedsLinking /\ MergedInstr(2, 1).FunctionId = "$main"

\* donor B on a host that imports b as $imp_b: call $db became call $imp_b
C25_WitnessNamed ==
    /\ JustMerged /\ mg.src = "B"
    /\ 0 \in ReusedImports
    /\ MergedInstr(1, 1).FunctionNeedsLinking
    /\ MergedInstr(1, 1).FunctionId = "$imp_b"

(***************************************************************************)
(* C26 - one remap per position of a substituted snippet                   *)
(***************************************************************************)

\* body k holds one instruction record at two or more of its positions, as
\* ReplaceInstr and InsertAfterRelocating leave it after several matches
Substituted2(w, k) ==
    \E p, q \in DOMAIN w.Code[k].Expression :
        p # q /\ w.Code[k].Expression[p] = w.Code[k].Expression[q]

\* C26: when a snippet was substituted at two or more positions of a body,
\* a later import-insert step of AddFuncsFrom applies its remap exactly once
\* to the function operand at each position of that body: an operand below
\* the insert position stays, every other operand goes up by one.
C26_RemapAppliedOnce ==
    [][(pc = "imports" /\ Len(wf'.Import) = Len(wf.Import) + 1) =>
         \A k \in DOMAIN wf.Code :
            Substituted2(wf, k) =>
               \A p \in DOMAIN wf.Code[k].Expression :
                  LET old == heap[wf.Code[k].Expression[p]].FuncIndex
                      new == heap'[wf'.Code[k].Expression[p]].FuncIndex
                  IN  new = IF old < Len(wf.Import) THEN old ELSE old + 1]_vars

\* the case happens: an insert step on a host with such a body
C26_Reached ==
    /\ pc = "imports"
    /\ Len(wf.Import) > Len(mg.before.Import)
    /\ \E k \in DOMAIN mg.before.Code : Substituted2(mg.before, k)

(***************************************************************************)
(* C27 - type operands of merged call_indirect                             *)
(***************************************************************************)

\* C27: after AddFuncsFrom every call_indirect in merged donor code carries
\* a type index that names, in the host's type vector, a type equal to the
\* donor type it named before the merge.
C27_IndirectTypes ==
    JustMerged =>
        \A j \in DOMAIN MergedDonor.Code : \A q \in DOMAIN MergedDonor.Code[j].Expression :
            DonorInstr(j, q).Opcode = "call_indirect" =>
                /\ MergedInstr(j, q).TypeIndex \in 0..(Len(wf.Type) - 1)
                /\ wf.Type[MergedInstr(j, q).TypeIndex + 1]
                      = MergedDonor.Type[DonorInstr(j, q).TypeIndex + 1]

(***************************************************************************)
(* C28 - AddData                                                           *)
(***************************************************************************)

\* the byte range of a segment with a single i32.const offset
SegRange(seg) ==
    {a \in seg.Offset[1].I32Value..(seg.Offset[1].I32Value + Len(seg.Data) - 1) : TRUE}

\* C28: after AddData(name, bytes) on a module whose segments each have a
\* single i32.const offset, in whatever order they are stored, the new
\* segment is the last of the data vector, holds the bytes, is registered
\* under the name, has an offset that is a multiple of 8, and its byte range
\* overlaps the range of no existing segment.
C28_AddData ==
    log.op = "AddData" =>
        LET n == Len(wf.Data)
            seg == wf.Data[n]
        IN  /\ n = Len(log.before) + 1
            /\ SubSeq(wf.Data, 1, n - 1) = log.before
            /\ seg.Data = log.data
            /\ wf.dataNames[n - 1] = log.name
            /\ seg.Offset[1].I32Value % 8 = 0
            /\ \A x \in 1..(n - 1) : SegRange(seg) \cap SegRange(wf.Data[x]) = {}

\* everything but the overlap holds on the failing input
C28_Placed ==
    /\ log.op = "AddData"
    /\ Len(log.before) = 2
    /\ log.before[1].Offset[1].I32Value = 16 /\ Len(log.before[1].Data) = 4
    /\ log.before[2].Offset[1].I32Value = 0 /\ Len(log.before[2].Data) = 5
    /\ Len(log.data) = 9
    /\ wf.Data[3].Offset[1].I32Value = 8
    /\ wf.dataNames[2] = log.name
    /\ SegRange(wf.Data[3]) \cap SegRange(wf.Data[1]) # {}

(***************************************************************************)
(* C29 - entries kept by Renumber_functions                                *)
(***************************************************************************)

\* map a holds exactly the entries of b whose index is a key of remap, each
\* at remap[index]
Kept(b, a, remap) ==
    /\ DOMAIN a = {remap[o] : o \in (DOMAIN b) \cap (DOMAIN remap)}
    /\ \A o \in (DOMAIN b) \cap (DOMAIN remap) : a[remap[o]] = b[o]

\* every entry of b at the index of a function is in a at the index the
\* insert at position n gives that function
Carried(b, a, n, count) ==
    \A i \in (DOMAIN b) \cap (0..(count - 1)) :
        LET to == IF i < n THEN i ELSE i + 1
        IN  to \in DOMAIN a /\ a[to] = b[i]

\* C29: Renumber_functions(remap) keeps exactly the entries whose old index
\* is a key of remap, each at remap[old], and removes the others; the remap
\* of an import insert of AddFuncsFrom has every index 0..|imports|+|code| as
\* a key, so no name, debug or signature entry of a host function or import
\* is lost by the insert.
C29_EntriesKept ==
    /\ [](log.op = "Renumber" =>
            /\ Kept(log.before.FunctionNames, wf.FunctionNames, log.remap)
            /\ Kept(log.before.functionDebug, wf.functionDebug, log.remap)
            /\ Kept(log.before.functionSignature, wf.functionSignature, log.remap))
    /\ [][(pc = "imports" /\ Len(wf'.Import) = Len(wf.Import) + 1) =>
            LET n == Len(wf.Import)
                rmap == mg'.remaps[Len(mg'.remaps)]
            IN  /\ 0..NumFuncs(wf) \subseteq DOMAIN rmap
                /\ Carried(wf.FunctionNames, wf'.FunctionNames, n, NumFuncs(wf))
                /\ Carried(wf.functionDebug, wf'.functionDebug, n, NumFuncs(wf))
                /\ Carried(wf.functionSignature, wf'.functionSignature, n, NumFuncs(wf))]_vars

\* a remap whose keys miss the index of a name: the name is gone, while a
\* keyed debug entry moved
C29_Witness ==
    /\ log.op = "Renumber"
    /\ \E o \in DOMAIN log.before.FunctionNames :
          /\ o \notin DOMAIN log.remap
          /\ log.before.FunctionNames[o] \notin Range(wf.FunctionNames)
    /\ \E o \in DOMAIN log.before.functionDebug :
          /\ o \in DOMAIN log.remap /\ log.remap[o] # o
          /\ wf.functionDebug[log.remap[o]] = log.before.functionDebug[o]

\* an insert that moved the name, debug and signature entries of the host
C29_WitnessInsert ==
    /\ pc = "imports"
    /\ Len(mg.remaps) = 1
    /\ \E i \in DOMAIN mg.before.functionDebug :
          /\ i + 1 \in DOMAIN wf.functionDebug
          /\ i \notin DOMAIN wf.functionDebug
          /\ i + 1 \in DOMAIN wf.FunctionNames
    /\ 0 \in DOMAIN mg.before.functionSignature /\ 0 \in DOMAIN wf.functionSignature
    /\ wf.functionSignature[0] = mg.before.functionSignature[0]

(***************************************************************************)
(* C30 - edits whose text does not parse                                   *)
(***************************************************************************)

ValsIn(h, body) == [i \in 1..Len(body) |-> h[body[i]]]

\* the lines of a text that are neither blank nor only a comment
InstrLines(to) == SelectSeq(to, LAMBDA l : StripComment(l) # <<>>)

\* C30: when the text passed to ReplaceInstr, InsertFuncStart,
\* InsertFuncEnd or InsertAfterRelocating does not parse, the operation
\* returns the error and the instruction sequence of the code entry is as
\* before; on success InsertFuncStart yields snippet ++ body and
\* InsertFuncEnd body ++ snippet, with one instruction per line that is
\* neither blank nor only a `;;` comment.
C30_EditErrors ==
    [][(edits' = edits + 1 /\ log'.op \in {"ReplaceInstr", "InsertFuncStart",
                                           "InsertFuncEnd", "InsertAfterRelocating"}) =>
         LET k == log'.k
             old == ValsIn(heap, wf.Code[k].Expression)
             new == ValsIn(heap', wf'.Code[k].Expression)
             lines == InstrLines(log'.to)
             parses == \A i \in DOMAIN lines : DecodeWat(StripComment(lines[i]), wf).ok
             snippet == [i \in DOMAIN lines |-> DecodeWat(StripComment(lines[i]), wf).e]
         IN  /\ parses <=> log'.err = "nil"
             /\ ~parses => new = old /\ wf'.Code = wf.Code
             /\ (parses /\ log'.op = "InsertFuncStart") => new = snippet \o old
             /\ (parses /\ log'.op = "InsertFuncEnd") => new = old \o snippet]_vars

\* InsertFuncStart refused a text whose second line does not parse
C30_Witness ==
    /\ log.op = "InsertFuncStart"
    /\ log.err # "nil"
    /\ Len(log.to) = 2
    /\ heap[wf.Code[log.k].Expression[1]].Opcode # "drop"

\* InsertFuncEnd appended the two instructions of a three-line text
C30_WitnessEnd ==
    /\ log.op = "InsertFuncEnd"
    /\ log.err = "nil"
    /\ Len(log.to) = 3
    /\ LET body == wf.Code[log.k].Expression
       IN  /\ Len(body) >= 3
           /\ heap[body[Len(body)]].Opcode = "drop"
           /\ heap[body[Len(body) - 1]].Opcode = "call"

====
